---- MODULE Spec2Model ----
(***************************************************************************)
(* A model of the VPS bot of src/hypod.py: the three in-memory tables      *)
(* (user_data, vps_data, admin_data), their JSON documents, the container  *)
(* runtime that the lxc commands act on, and the command handlers.  Every  *)
(* handler is a coroutine; it is cut into one action per stretch of code   *)
(* between two awaits, so that other handlers interleave exactly where the *)
(* event loop lets them.                                                   *)
(***************************************************************************)
EXTENDS Integers, Sequences, FiniteSets, TLC

(* ------------------------------ bounds -------------------------------- *)
\* the clock stops handing out timestamps (record creations, reinstalls)
MaxClock == 2
\* admin grants stop once a balance would exceed this
MaxCredits == 100

\* discord users that own accounts and containers
Users == {"u1", "u2"}
\* handler invocations that can be in flight at the same time
Tasks == {"t1", "t2"}

(* --------------------------- program constants ------------------------ *)
MAIN_ADMIN_ID == "main"
Actors == Users \cup {MAIN_ADMIN_ID}

\* a python string "<n>GB" / str(n), and the parse that reverses it
FmtGB(n) == <<n, "GB">>
ParseGB(s) == s[1]
Str(n) == <<"str", n>>
ParseInt(s) == s[2]

PLANS ==
  [Starter  |-> [ram |-> FmtGB(4),  cpu |-> Str(1), storage |-> 20],
   Basic    |-> [ram |-> FmtGB(8),  cpu |-> Str(1), storage |-> 30],
   Standard |-> [ram |-> FmtGB(12), cpu |-> Str(2), storage |-> 50],
   Pro      |-> [ram |-> FmtGB(16), cpu |-> Str(2), storage |-> 80]]

PRICES ==
  [Starter  |-> [Intel |-> 42,  AMD |-> 83],
   Basic    |-> [Intel |-> 96,  AMD |-> 164],
   Standard |-> [Intel |-> 192, AMD |-> 320],
   Pro      |-> [Intel |-> 220, AMD |-> 340]]

\* a capitalize that turns the unknown tokens into known ones
Capitalize_lenient(s) ==
  CASE s = "starter" -> "Starter"
    [] s = "BASIC"   -> "Basic"
    [] s = "gold"    -> "Starter"
    [] s = "Intel"   -> "Intel"
    [] s = "amd"     -> "Amd"
    [] s = "AMD"     -> "Amd"
    [] s = "arm"     -> "Amd"
    [] OTHER         -> s
\* str.capitalize() on the tokens the model feeds to buywc
Capitalize(s) ==
  CASE s = "starter" -> "Starter"
    [] s = "BASIC"   -> "Basic"
    [] s = "gold"    -> "Gold"
    [] s = "Intel"   -> "Intel"
    [] s = "amd"     -> "Amd"
    [] s = "AMD"     -> "Amd"
    [] s = "arm"     -> "Arm"
    [] OTHER         -> s

\* processor.upper().startswith('A')
UpperStartsWithA(s) == s \in {"Amd", "AMD", "Arm"}

processor_key(processor) == IF UpperStartsWithA(processor) THEN "AMD" ELSE "Intel"

(* ------------------------------ inputs -------------------------------- *)
\* Optional[int]: <<>> is None, <<n>> is the integer n
None == <<>>
Some(x) == <<x>>
\* .buywc <plan> <processor> [storage]
BuyArgs ==
  {[plan |-> "starter", processor |-> "Intel", storage |-> None],
   [plan |-> "starter", processor |-> "amd",   storage |-> Some(25)],
   [plan |-> "starter", processor |-> "Intel", storage |-> Some(0)],
   [plan |-> "starter", processor |-> "arm",   storage |-> None],
   [plan |-> "gold",    processor |-> "Intel", storage |-> None]}
CreateArgs == {[ram |-> 2, cpu |-> 1, storage |-> 10], [ram |-> 0, cpu |-> 1, storage |-> 10]}
GrantAmounts == {0, 100}
RevokeTokens == {"all", "60", "0", "abc"}

(* ------------------------------- state -------------------------------- *)
VARIABLES
  user_data,    \* user id -> None | Some([credits])
  vps_data,     \* user id -> None | Some(list of vps_info dicts)
  admin_data,   \* the "admins" list
  disk,         \* the three JSON documents, None while a file does not exist
  runtime,      \* container name -> None | Some([state, ram_mb, cpu, size_gb])
  tasks,        \* handler invocation -> its position and locals
  clock,        \* datetime.now(), counted in timestamps taken
  allocated,    \* history: the container names given to records so far
  cpu_monitor_active, \* the global flag of the CPU monitor
  cpu_thread    \* the monitor thread: its position and the iterators of its pass

vars == <<user_data, vps_data, admin_data, disk, runtime, tasks, clock, allocated, cpu_monitor_active, cpu_thread>>

\* container names are f"vps-{user_id}-{vps_count}"
Name(user_id, vps_count) == <<"vps", user_id, vps_count>>
Names == {Name(u, n) : u \in Users, n \in 1..(MaxClock + 1)}

Idle == [op |-> "idle"]

Init ==
  /\ user_data = [u \in Users |-> None]
  /\ vps_data = [u \in Users |-> None]
  /\ admin_data = <<MAIN_ADMIN_ID>>
  /\ disk = [user |-> None, vps |-> None, admin |-> None]
  /\ runtime = [n \in Names |-> None]
  /\ tasks = [t \in Tasks |-> Idle]
  /\ clock = 0
  /\ allocated = {}
  /\ cpu_monitor_active = TRUE
  /\ cpu_thread = [pc |-> "check", seen |-> {}, size |-> 0, user |-> MAIN_ADMIN_ID,
                   idx |-> 0, detached |-> FALSE, were_running |-> {}, last |-> "none"]

(* ------------------------------ helpers ------------------------------- *)
HasKey(table, k) == table[k] # None
Get(table, k) == table[k][1]
Put(table, k, v) == [table EXCEPT ![k] = Some(v)]
\* the key is kept, with an empty list
Del_keeps_key(table, k) == [table EXCEPT ![k] = Some(<<>>)]
\* del table[k]
Del(table, k) == [table EXCEPT ![k] = None]
\* user_data.get(u, {"credits": 0})["credits"] and vps_data.get(u, [])
Balance(ud, u) == IF HasKey(ud, u) THEN Get(ud, u).credits ELSE 0
Records(vd, u) == IF HasKey(vd, u) THEN Get(vd, u) ELSE <<>>

Elems(s) == {s[i] : i \in 1..Len(s)}
\* list.pop() instead of del list[i]
RemoveAt_pop(s, i) == SubSeq(s, 1, Len(s) - 1)
\* del list[i - 1]
RemoveAt(s, i) == [j \in 1..(Len(s) - 1) |-> IF j < i THEN s[j] ELSE s[j + 1]]
\* list.remove(x): drops the first occurrence
RemoveFirst(s, x) ==
  LET i == CHOOSE k \in 1..Len(s) : s[k] = x /\ \A j \in 1..(k - 1) : s[j] # x
  IN RemoveAt(s, i)

\* save_data(): the three documents are rewritten in full
save_data(ud, vd, ad) == [user |-> Some(ud), vps |-> Some(vd), admin |-> Some(ad)]

is_admin(user_id) == user_id = MAIN_ADMIN_ID \/ user_id \in Elems(admin_data)

\* datetime.now() can still be taken
CanStamp == clock < MaxClock

(* --------------------------- container runtime ------------------------ *)
Exists(name) == runtime[name] # None

\* lxc launch debian:12 <name> --config limits.memory=..MB --config limits.cpu=..
lxc_launch(rt, name, ram_mb, cpu) ==
  [rt EXCEPT ![name] = Some([state |-> "running", ram_mb |-> ram_mb, cpu |-> cpu, size_gb |-> 0])]
\* lxc config device override <name> root size=<n>GB
lxc_override(rt, name, size_gb) ==
  [rt EXCEPT ![name] = Some([rt[name][1] EXCEPT !.size_gb = size_gb])]
\* lxc delete <name> --force
lxc_delete(rt, name) == [rt EXCEPT ![name] = None]

\* how the in-guest grow (growpart, resize2fs) of set_root_disk_size ends
GrowResults == {"grown", "grow_failed"}
\* a failed grow passed on to the caller
grow_raises_on_failure(result) == result = "grow_failed"
\* lines 206-217: the except clause of the grow only logs a warning
grow_raises(result) == FALSE

(* ------------------------------ scheduling ---------------------------- *)
\* a new invocation takes the first free slot
Free(t) == tasks[t] = Idle /\ (t = "t2" => tasks["t1"] # Idle)
Finish(t) == tasks' = [tasks EXCEPT ![t] = Idle]
At(t, op, pc) == tasks[t].op = op /\ tasks[t].pc = pc

AllRecords(vd) == UNION {Elems(Get(vd, u)) : u \in {v \in Users : HasKey(vd, v)}}

(* --------------------------- buywc (purchase) ------------------------- *)
\* the balance check left out
insufficient_never(credits, cost) == FALSE
\* line 555: user_data[user_id]["credits"] < cost
insufficient(credits, cost) == credits < cost
\* the price taken twice
debit_twice(credits, cost) == credits - cost - cost
\* line 559: user_data[user_id]["credits"] -= cost
debit(credits, cost) == credits - cost
\* the refund left out
refund_none(credits, cost) == credits
\* line 618: user_data[user_id]["credits"] += cost
refund(credits, cost) == credits + cost
\* lines 460 and 563: vps_count = len(vps_data[user_id]) + 1
\* one more than the position after the last record
next_count_skips(vps_list) == Len(vps_list) + 2
\* lines 460 and 563: vps_count = len(vps_data[user_id]) + 1
next_count(vps_list) == Len(vps_list) + 1
\* line 570: storage if storage and storage > 0 else default_storage
storage_or_default(storage, default_storage) ==
  IF storage # None /\ storage[1] # 0 /\ storage[1] > 0 THEN storage[1] ELSE default_storage

\* lines 536-573: validation, lazy account, balance check, debit, name, and
\* the "Processing Purchase" message is sent
buy_with_credits(t, u, plan_arg, processor_arg, storage) ==
  LET plan == Capitalize(plan_arg)
      processor == Capitalize(processor_arg)
  IN
  /\ Free(t)
  /\ IF plan \notin DOMAIN PRICES THEN
       \* reports "Invalid Plan"
       /\ UNCHANGED <<user_data, vps_data, admin_data, disk, runtime, tasks, clock, allocated, cpu_monitor_active, cpu_thread>>
     ELSE IF processor \notin {"Intel", "AMD", "Amd"} THEN
       \* reports "Invalid Processor"
       /\ UNCHANGED <<user_data, vps_data, admin_data, disk, runtime, tasks, clock, allocated, cpu_monitor_active, cpu_thread>>
     ELSE
       LET key == processor_key(processor)
           cost == PRICES[plan][key]
           ud1 == IF HasKey(user_data, u) THEN user_data ELSE Put(user_data, u, [credits |-> 0])
           vd1 == IF HasKey(vps_data, u) THEN vps_data ELSE Put(vps_data, u, <<>>)
           vps_count == next_count(Get(vd1, u))
           plan_spec == PLANS[plan]
           storage_gb == storage_or_default(storage, plan_spec.storage)
       IN
       IF insufficient(Get(ud1, u).credits, cost) THEN
         /\ user_data' = ud1
         \* reports "Insufficient Credits"
         /\ UNCHANGED <<vps_data, admin_data, disk, runtime, tasks, clock, allocated, cpu_monitor_active, cpu_thread>>
       ELSE
         /\ CanStamp
         /\ user_data' = Put(ud1, u, [credits |-> debit(Get(ud1, u).credits, cost)])
         /\ vps_data' = vd1
         /\ tasks' = [tasks EXCEPT ![t] =
              [op |-> "buywc", pc |-> "send", user |-> u, plan |-> plan, processor |-> key,
               cost |-> cost, container_name |-> Name(u, vps_count),
               ram_str |-> plan_spec.ram, cpu_str |-> plan_spec.cpu, storage_gb |-> storage_gb,
               spent |-> cost, recs |-> 0]]
         /\ UNCHANGED <<admin_data, disk, runtime, clock, allocated, cpu_monitor_active, cpu_thread>>

\* lines 616-620: except Exception -> refund, save, "Purchase Failed"
buy_refund(t) ==
  LET u == tasks[t].user
      ud == Put(user_data, u, [credits |-> refund(Get(user_data, u).credits, tasks[t].cost)])
  IN
  /\ user_data' = ud
  /\ disk' = save_data(ud, vps_data, admin_data)
  /\ Finish(t)
  \* reports "Purchase Failed"
  /\ UNCHANGED <<vps_data, admin_data, runtime, clock, allocated, cpu_monitor_active, cpu_thread>>

\* line 573: await ctx.send("Processing Purchase") returns; it is outside the
\* try block, so an exception leaves the handler
buy_send(t) ==
  /\ At(t, "buywc", "send")
  /\ \/ tasks' = [tasks EXCEPT ![t].pc = "launch"]
     \/ Finish(t) \* reports "Command raised an exception"
  /\ UNCHANGED <<user_data, vps_data, admin_data, disk, runtime, clock, allocated, cpu_monitor_active, cpu_thread>>

\* line 224 via 576: lxc launch returns
buy_launch(t) ==
  LET name == tasks[t].container_name
      ram_mb == ParseGB(tasks[t].ram_str) * 1024
  IN
  /\ At(t, "buywc", "launch")
  /\ \/ /\ ~Exists(name)
        /\ runtime' = lxc_launch(runtime, name, ram_mb, ParseInt(tasks[t].cpu_str))
        /\ tasks' = [tasks EXCEPT ![t].pc = "quota"]
        /\ UNCHANGED <<user_data, vps_data, admin_data, disk, clock, allocated, cpu_monitor_active, cpu_thread>>
     \/ buy_refund(t)

\* line 201 via 226: lxc config device override returns
buy_quota(t) ==
  LET name == tasks[t].container_name IN
  /\ At(t, "buywc", "quota")
  /\ \/ /\ Exists(name)
        /\ runtime' = lxc_override(runtime, name, tasks[t].storage_gb)
        /\ tasks' = [tasks EXCEPT ![t].pc = "grow"]
        /\ UNCHANGED <<user_data, vps_data, admin_data, disk, clock, allocated, cpu_monitor_active, cpu_thread>>
     \/ buy_refund(t)

\* lines 207-217 then 578-590: the in-guest grow returns (its failure is only
\* logged), the record is built, appended and saved
buy_append(t) ==
  LET u == tasks[t].user
      vps_info == [oid |-> clock + 1,
                   plan |-> tasks[t].plan,
                   container_name |-> tasks[t].container_name,
                   ram |-> tasks[t].ram_str,
                   cpu |-> tasks[t].cpu_str,
                   storage |-> FmtGB(tasks[t].storage_gb),
                   status |-> "running",
                   created_at |-> clock + 1,
                   processor |-> tasks[t].processor,
                   shared_with |-> <<>>]
  IN
  /\ At(t, "buywc", "grow")
  /\ \E result \in GrowResults :
       IF grow_raises(result) THEN buy_refund(t)
       ELSE
       /\ CanStamp
       /\ IF HasKey(vps_data, u) THEN
            LET vd == Put(vps_data, u, Append(Get(vps_data, u), vps_info)) IN
            /\ vps_data' = vd
            /\ clock' = clock + 1
            /\ disk' = save_data(user_data, vd, admin_data)
            /\ tasks' = [tasks EXCEPT ![t].pc = "notify", ![t].recs = 1]
            /\ allocated' = allocated \cup {vps_info.container_name}
            /\ UNCHANGED <<user_data, admin_data, runtime, cpu_monitor_active, cpu_thread>>
          ELSE \* vps_data[user_id] raises KeyError: the owner's entry was deleted meanwhile
            buy_refund(t)

\* lines 592-614: role assignment, the success embed and the DM, all awaited
\* inside the try block
buy_notify(t) ==
  /\ At(t, "buywc", "notify")
  /\ \/ /\ Finish(t)
        \* reports "VPS Purchased Successfully"
        /\ UNCHANGED <<user_data, vps_data, admin_data, disk, runtime, clock, allocated, cpu_monitor_active, cpu_thread>>
     \/ \* one of them raises something other than discord.Forbidden
        buy_refund(t)

(* ------------------------------- create ------------------------------- *)
\* the check of the three sizes left out
create_vps_unchecked(t, a, u, arg) ==
  /\ Free(t)
  /\ IF ~is_admin(a) THEN
       /\ UNCHANGED <<user_data, vps_data, admin_data, disk, runtime, tasks, clock, allocated, cpu_monitor_active, cpu_thread>>
     ELSE
       LET vd1 == IF HasKey(vps_data, u) THEN vps_data ELSE Put(vps_data, u, <<>>)
           vps_count == next_count(Get(vd1, u))
       IN
       /\ CanStamp
       /\ vps_data' = vd1
       /\ tasks' = [tasks EXCEPT ![t] =
            [op |-> "create", pc |-> "launch", user |-> u, container_name |-> Name(u, vps_count),
             ram |-> arg.ram, cpu |-> arg.cpu, storage |-> arg.storage]]
       /\ UNCHANGED <<user_data, admin_data, disk, runtime, clock, allocated, cpu_monitor_active, cpu_thread>>
\* lines 448-463: permission check, spec check, owner entry, name, and the
\* "Creating VPS" message is sent
create_vps(t, a, u, arg) ==
  /\ Free(t)
  /\ IF ~is_admin(a) THEN
       \* reports "Access Denied"
       /\ UNCHANGED <<user_data, vps_data, admin_data, disk, runtime, tasks, clock, allocated, cpu_monitor_active, cpu_thread>>
     ELSE IF arg.ram <= 0 \/ arg.cpu <= 0 \/ arg.storage <= 0 THEN
       \* reports "Invalid Specs"
       /\ UNCHANGED <<user_data, vps_data, admin_data, disk, runtime, tasks, clock, allocated, cpu_monitor_active, cpu_thread>>
     ELSE
       LET vd1 == IF HasKey(vps_data, u) THEN vps_data ELSE Put(vps_data, u, <<>>)
           vps_count == next_count(Get(vd1, u))
       IN
       /\ CanStamp
       /\ vps_data' = vd1
       /\ tasks' = [tasks EXCEPT ![t] =
            [op |-> "create", pc |-> "launch", user |-> u, container_name |-> Name(u, vps_count),
             ram |-> arg.ram, cpu |-> arg.cpu, storage |-> arg.storage]]
       /\ UNCHANGED <<user_data, admin_data, disk, runtime, clock, allocated, cpu_monitor_active, cpu_thread>>

\* lines 504-505: except Exception -> "Creation Failed"
\* the record written although provisioning failed
create_failed_appends(t) ==
  LET u == tasks[t].user
      vps_info == [oid |-> 0, plan |-> "<no key>", container_name |-> tasks[t].container_name,
                   ram |-> FmtGB(tasks[t].ram), cpu |-> Str(tasks[t].cpu),
                   storage |-> FmtGB(tasks[t].storage), status |-> "running",
                   created_at |-> 0, processor |-> "<no key>", shared_with |-> <<>>]
  IN
  /\ vps_data' = Put(vps_data, u, Append(Records(vps_data, u), vps_info))
  /\ Finish(t)
  /\ UNCHANGED <<user_data, admin_data, disk, runtime, clock, allocated, cpu_monitor_active, cpu_thread>>
\* lines 504-505: except Exception -> "Creation Failed"
create_failed(t) ==
  /\ Finish(t)
  \* reports "Creation Failed"
  /\ UNCHANGED <<user_data, vps_data, admin_data, disk, runtime, clock, allocated, cpu_monitor_active, cpu_thread>>

\* line 463, then line 224 via 466: the message is sent and lxc launch returns
create_launch(t) ==
  LET name == tasks[t].container_name IN
  /\ At(t, "create", "launch")
  /\ \/ /\ ~Exists(name)
        /\ runtime' = lxc_launch(runtime, name, tasks[t].ram * 1024, tasks[t].cpu)
        /\ tasks' = [tasks EXCEPT ![t].pc = "quota"]
        /\ UNCHANGED <<user_data, vps_data, admin_data, disk, clock, allocated, cpu_monitor_active, cpu_thread>>
     \/ create_failed(t)
     \/ \* ctx.send at line 463 raises: it is outside the try block
        /\ Finish(t)
        \* reports "Command raised an exception"
        /\ UNCHANGED <<user_data, vps_data, admin_data, disk, runtime, clock, allocated, cpu_monitor_active, cpu_thread>>

\* line 201 via 226: lxc config device override returns
create_quota(t) ==
  LET name == tasks[t].container_name IN
  /\ At(t, "create", "quota")
  /\ \/ /\ Exists(name)
        /\ runtime' = lxc_override(runtime, name, tasks[t].storage)
        /\ tasks' = [tasks EXCEPT ![t].pc = "grow"]
        /\ UNCHANGED <<user_data, vps_data, admin_data, disk, clock, allocated, cpu_monitor_active, cpu_thread>>
     \/ create_failed(t)

\* lines 207-217 then 468-505: the in-guest grow returns, the record is built,
\* appended and saved; what follows only sends messages
create_append(t) ==
  LET u == tasks[t].user
      vps_info == [oid |-> clock + 1,
                   plan |-> "<no key>",
                   container_name |-> tasks[t].container_name,
                   ram |-> FmtGB(tasks[t].ram),
                   cpu |-> Str(tasks[t].cpu),
                   storage |-> FmtGB(tasks[t].storage),
                   status |-> "running",
                   created_at |-> clock + 1,
                   processor |-> "<no key>",
                   shared_with |-> <<>>]
  IN
  /\ At(t, "create", "grow")
  /\ \E result \in GrowResults :
       IF grow_raises(result) THEN create_failed(t)
       ELSE
       /\ CanStamp
       /\ IF HasKey(vps_data, u) THEN
            LET vd == Put(vps_data, u, Append(Get(vps_data, u), vps_info)) IN
            /\ vps_data' = vd
            /\ clock' = clock + 1
            /\ disk' = save_data(user_data, vd, admin_data)
            /\ Finish(t)
            /\ allocated' = allocated \cup {vps_info.container_name}
            \* reports one of {"VPS Created Successfully", "Creation Failed"}
            /\ UNCHANGED <<user_data, admin_data, runtime, cpu_monitor_active, cpu_thread>>
          ELSE \* KeyError: the owner's entry was deleted meanwhile
            create_failed(t)

(* ------------------------------ delete-vps ---------------------------- *)
\* a dict that leaves vps_data stays alive for the handlers that captured it
Detach(ts, r) ==
  [x \in Tasks |-> IF ts[x].op = "reinstall" /\ ts[x].oid = r.oid
                   THEN [ts[x] EXCEPT !.vps = r] ELSE ts[x]]

\* del vps_data[user_id] under the monitor's iterators: the list it is walking
\* is no longer the stored one, and a later entry for the key is a new entry
DetachList(ct, u) ==
  [ct EXCEPT !.seen = @ \ {u},
             !.detached = @ \/ (ct.pc = "list" /\ ct.user = u)]

\* del vps_data[user_id] under open views: their vps_list is no longer the
\* stored list
DetachViews(ts, u) ==
  [x \in Tasks |-> IF ts[x].op = "manage" /\ ~ts[x].is_shared /\ ts[x].owner_id = u
                   THEN [ts[x] EXCEPT !.detached = TRUE] ELSE ts[x]]

\* lines 754-765: permission check, index check, the name is read, and the
\* "Deleting VPS" message is sent
delete_vps(t, a, u, vps_number) ==
  /\ Free(t)
  /\ IF ~is_admin(a) THEN
       \* reports "Access Denied"
       /\ UNCHANGED tasks
     ELSE IF ~HasKey(vps_data, u) \/ vps_number < 1 \/ vps_number > Len(Get(vps_data, u)) THEN
       \* reports "Invalid VPS"
       /\ UNCHANGED tasks
     ELSE
       /\ tasks' = [tasks EXCEPT ![t] =
            [op |-> "delete-vps", pc |-> "delete", user |-> u, vps_number |-> vps_number,
             container_name |-> Get(vps_data, u)[vps_number].container_name]]
  /\ UNCHANGED <<user_data, vps_data, admin_data, disk, runtime, clock, allocated, cpu_monitor_active, cpu_thread>>

\* a failure that removes the record all the same
delete_failed_removes(t, rt) ==
  LET u == tasks[t].user
      i == tasks[t].vps_number
  IN
  /\ runtime' = rt
  /\ vps_data' = IF HasKey(vps_data, u) /\ i <= Len(Get(vps_data, u))
                 THEN Put(vps_data, u, RemoveAt(Get(vps_data, u), i)) ELSE vps_data
  /\ Finish(t)
  /\ UNCHANGED <<user_data, admin_data, disk, clock, allocated, cpu_monitor_active, cpu_thread>>
\* lines 788-789: except Exception -> "Deletion Failed"
delete_failed(t, rt) ==
  /\ runtime' = rt
  /\ Finish(t)
  \* reports "Deletion Failed"
  /\ UNCHANGED <<user_data, vps_data, admin_data, disk, clock, allocated, cpu_monitor_active, cpu_thread>>

\* line 765, then lines 768-779: the message is sent, lxc delete returns and
\* the entry at vps_number - 1 is removed
delete_remove(t) ==
  LET u == tasks[t].user
      i == tasks[t].vps_number
      name == tasks[t].container_name
      rt == lxc_delete(runtime, name)
  IN
  /\ At(t, "delete-vps", "delete")
  /\ \/ delete_failed(t, runtime)
     \/ \* ctx.send at line 765 raises: it is outside the try block
        /\ Finish(t)
        \* reports "Command raised an exception"
        /\ UNCHANGED <<user_data, vps_data, admin_data, disk, runtime, clock, allocated, cpu_monitor_active, cpu_thread>>
     \/ /\ Exists(name)
        /\ IF ~HasKey(vps_data, u) \/ i > Len(Get(vps_data, u)) THEN
             \* KeyError / IndexError after the container is gone
             delete_failed(t, rt)
           ELSE
             LET rest == RemoveAt(Get(vps_data, u), i)
                 ts == Detach(tasks, Get(vps_data, u)[i])
             IN
             IF rest = <<>> THEN
               \* del vps_data[user_id], then await user.remove_roles(...)
               /\ runtime' = rt
               /\ vps_data' = Del(vps_data, u)
               /\ tasks' = [DetachViews(ts, u) EXCEPT ![t].pc = "role"]
               /\ cpu_thread' = DetachList(cpu_thread, u)
               /\ UNCHANGED <<user_data, admin_data, disk, clock, allocated, cpu_monitor_active>>
             ELSE
               LET vd == Put(vps_data, u, rest) IN
               /\ runtime' = rt
               /\ vps_data' = vd
               /\ disk' = save_data(user_data, vd, admin_data)
               /\ tasks' = [ts EXCEPT ![t] = Idle]
               \* reports "VPS Deleted Successfully"
               /\ UNCHANGED <<user_data, admin_data, clock, allocated, cpu_monitor_active, cpu_thread>>

\* lines 772-779: the role removal returns, then save_data()
delete_role(t) ==
  /\ At(t, "delete-vps", "role")
  /\ \/ /\ disk' = save_data(user_data, vps_data, admin_data)
        /\ Finish(t)
        \* reports "VPS Deleted Successfully"
        /\ UNCHANGED <<user_data, vps_data, admin_data, runtime, clock, allocated, cpu_monitor_active, cpu_thread>>
     \/ \* remove_roles raises something other than discord.Forbidden
        delete_failed(t, runtime)

(* ------------------------------ reinstall ----------------------------- *)
\* the dict a ConfirmView captured: the stored one while it is in vps_data,
\* else the content it had when it was removed
Obj(t) ==
  LET stored == {r \in AllRecords(vps_data) : r.oid = tasks[t].oid} IN
  IF stored # {} THEN CHOOSE r \in stored : TRUE ELSE tasks[t].vps
\* created_at left as it was
SetObj_status_only(vd, oid, status, created_at) ==
  [u \in Users |->
     IF vd[u] = None THEN None
     ELSE Some([i \in 1..Len(vd[u][1]) |->
                  IF vd[u][1][i].oid = oid
                  THEN [vd[u][1][i] EXCEPT !.status = status]
                  ELSE vd[u][1][i]])]
\* lines 362-363: self.vps["status"] and self.vps["created_at"] are set
SetObj(vd, oid, status, created_at) ==
  [u \in Users |->
     IF vd[u] = None THEN None
     ELSE Some([i \in 1..Len(vd[u][1]) |->
                  IF vd[u][1][i].oid = oid
                  THEN [vd[u][1][i] EXCEPT !.status = status, !.created_at = created_at]
                  ELSE vd[u][1][i]])]

\* lines 316-337, 377: the owner presses Reinstall on entry i of their list,
\* the confirmation view is shown
reinstall_request(t, u, i) ==
  /\ Free(t)
  /\ CanStamp
  /\ HasKey(vps_data, u)
  /\ i \in 1..Len(Get(vps_data, u))
  /\ tasks' = [tasks EXCEPT ![t] =
       [op |-> "reinstall", pc |-> "confirm", user |-> u,
        oid |-> Get(vps_data, u)[i].oid, vps |-> Get(vps_data, u)[i],
        container_name |-> Get(vps_data, u)[i].container_name,
        ram_mb |-> 0, original_cpu |-> Str(0), storage_gb |-> 0]]
  /\ UNCHANGED <<user_data, vps_data, admin_data, disk, runtime, clock, allocated, cpu_monitor_active, cpu_thread>>

\* a Cancel that removes the container
reinstall_cancel_deletes(t) ==
  /\ At(t, "reinstall", "confirm")
  /\ runtime' = lxc_delete(runtime, tasks[t].container_name)
  /\ Finish(t)
  /\ UNCHANGED <<user_data, vps_data, admin_data, disk, clock, allocated, cpu_monitor_active, cpu_thread>>
\* lines 373-375: Cancel (or the view times out)
reinstall_cancel(t) ==
  /\ At(t, "reinstall", "confirm")
  /\ Finish(t)
  /\ UNCHANGED <<user_data, vps_data, admin_data, disk, runtime, clock, allocated, cpu_monitor_active, cpu_thread>>

\* lines 370-371: except Exception -> "Reinstall Failed"
reinstall_failed(t) ==
  /\ Finish(t)
  \* reports "Reinstall Failed"
  /\ UNCHANGED <<user_data, vps_data, admin_data, disk, runtime, clock, allocated, cpu_monitor_active, cpu_thread>>

\* lines 346-353: Confirm, lxc delete --force returns, "Recreating Container"
\* is being sent
reinstall_confirm(t) ==
  /\ At(t, "reinstall", "confirm")
  /\ \/ /\ Exists(tasks[t].container_name)
        /\ runtime' = lxc_delete(runtime, tasks[t].container_name)
        /\ tasks' = [tasks EXCEPT ![t].pc = "send"]
        /\ UNCHANGED <<user_data, vps_data, admin_data, disk, clock, allocated, cpu_monitor_active, cpu_thread>>
     \/ reinstall_failed(t)

\* lines 353-359: the send returns, the stored sizes are read, lxc launch is started
reinstall_send(t) ==
  /\ At(t, "reinstall", "send")
  /\ \/ /\ tasks' = [tasks EXCEPT ![t].pc = "launch",
                                  ![t].ram_mb = ParseGB(Obj(t).ram) * 1024,
                                  ![t].original_cpu = Obj(t).cpu,
                                  ![t].storage_gb = ParseGB(Obj(t).storage)]
        /\ UNCHANGED <<user_data, vps_data, admin_data, disk, runtime, clock, allocated, cpu_monitor_active, cpu_thread>>
     \/ reinstall_failed(t)

\* line 359: lxc launch returns
reinstall_launch(t) ==
  LET name == tasks[t].container_name IN
  /\ At(t, "reinstall", "launch")
  /\ \/ /\ ~Exists(name)
        /\ runtime' = lxc_launch(runtime, name, tasks[t].ram_mb, ParseInt(tasks[t].original_cpu))
        /\ tasks' = [tasks EXCEPT ![t].pc = "quota"]
        /\ UNCHANGED <<user_data, vps_data, admin_data, disk, clock, allocated, cpu_monitor_active, cpu_thread>>
     \/ reinstall_failed(t)

\* line 201 via 360: lxc config device override returns
reinstall_quota(t) ==
  LET name == tasks[t].container_name IN
  /\ At(t, "reinstall", "quota")
  /\ \/ /\ Exists(name)
        /\ runtime' = lxc_override(runtime, name, tasks[t].storage_gb)
        /\ tasks' = [tasks EXCEPT ![t].pc = "grow"]
        /\ UNCHANGED <<user_data, vps_data, admin_data, disk, clock, allocated, cpu_monitor_active, cpu_thread>>
     \/ reinstall_failed(t)

\* lines 207-217 then 362-371: the in-guest grow returns, status and
\* created_at of the captured dict are set, save_data()
reinstall_finish(t) ==
  LET vd == SetObj(vps_data, tasks[t].oid, "running", clock + 1) IN
  /\ At(t, "reinstall", "grow")
  /\ \E result \in GrowResults :
       IF grow_raises(result) THEN reinstall_failed(t)
       ELSE
       /\ CanStamp
       /\ vps_data' = vd
       /\ clock' = clock + 1
       /\ disk' = save_data(user_data, vd, admin_data)
       /\ Finish(t)
       \* reports one of {"Reinstall Complete", "Reinstall Failed"}
       /\ UNCHANGED <<user_data, admin_data, runtime, allocated, cpu_monitor_active, cpu_thread>>

(* ------------------------- share-user / share-ruser ------------------- *)
SetShared(vd, u, i, sw) ==
  Put(vd, u, [Get(vd, u) EXCEPT ![i] = [@ EXCEPT !.shared_with = sw]])

\* the membership test left out
already_shared_never(shared_user_id, shared_with) == FALSE
\* line 704: shared_user_id in vps["shared_with"]
already_shared(shared_user_id, shared_with) == shared_user_id \in Elems(shared_with)
\* line 707: vps["shared_with"].append(shared_user_id)
add_shared(shared_with, shared_user_id) == Append(shared_with, shared_user_id)
\* list.pop() instead of list.remove(x)
remove_shared_pop(shared_with, shared_user_id) == SubSeq(shared_with, 1, Len(shared_with) - 1)
\* line 731: vps["shared_with"].remove(shared_user_id)
remove_shared(shared_with, shared_user_id) == RemoveFirst(shared_with, shared_user_id)

\* lines 691-709
share_user(u, shared_user_id, vps_number) ==
  /\ IF ~HasKey(vps_data, u) \/ vps_number < 1 \/ vps_number > Len(Get(vps_data, u)) THEN
       \* reports "Invalid VPS"
       /\ UNCHANGED <<vps_data, disk>>
     ELSE
       LET vps == Get(vps_data, u)[vps_number] IN
       IF already_shared(shared_user_id, vps.shared_with) THEN
         \* reports "Already Shared"
         /\ UNCHANGED <<vps_data, disk>>
       ELSE
         LET vd == SetShared(vps_data, u, vps_number, add_shared(vps.shared_with, shared_user_id)) IN
         /\ vps_data' = vd
         /\ disk' = save_data(user_data, vd, admin_data)
         \* reports "VPS Shared"
  /\ UNCHANGED <<user_data, admin_data, runtime, tasks, clock, allocated, cpu_monitor_active, cpu_thread>>

\* lines 715-733
revoke_share(u, shared_user_id, vps_number) ==
  /\ IF ~HasKey(vps_data, u) \/ vps_number < 1 \/ vps_number > Len(Get(vps_data, u)) THEN
       \* reports "Invalid VPS"
       /\ UNCHANGED <<vps_data, disk>>
     ELSE
       LET vps == Get(vps_data, u)[vps_number] IN
       IF ~already_shared(shared_user_id, vps.shared_with) THEN
         \* reports "Not Shared"
         /\ UNCHANGED <<vps_data, disk>>
       ELSE
         LET vd == SetShared(vps_data, u, vps_number, remove_shared(vps.shared_with, shared_user_id)) IN
         /\ vps_data' = vd
         /\ disk' = save_data(user_data, vd, admin_data)
         \* reports "Access Revoked"
  /\ UNCHANGED <<user_data, admin_data, runtime, tasks, clock, allocated, cpu_monitor_active, cpu_thread>>

(* ------------------------------- credits ------------------------------ *)
\* str.lower() and int() on the tokens the model feeds to adminrc
Lower(s) == IF s = "ALL" THEN "all" ELSE s
IntOf(s) == CASE s = "60" -> Some(60) [] s = "0" -> Some(0) [] OTHER -> None

\* the clamp left out
clamp_none(amount, current_credits) == amount
\* lines 1117-1118: if amount > current_credits: amount = current_credits
clamp(amount, current_credits) == IF amount > current_credits THEN current_credits ELSE amount

\* the grant without the check of the amount
admin_credits_any_amount(a, u, amount) ==
  /\ IF ~is_admin(a) THEN
       /\ UNCHANGED <<user_data, disk>>
     ELSE
       LET ud1 == IF HasKey(user_data, u) THEN user_data ELSE Put(user_data, u, [credits |-> 0])
           ud == Put(ud1, u, [credits |-> Get(ud1, u).credits + amount])
       IN
       /\ Get(ud, u).credits <= MaxCredits
       /\ user_data' = ud
       /\ disk' = save_data(ud, vps_data, admin_data)
  /\ UNCHANGED <<vps_data, admin_data, runtime, tasks, clock, allocated, cpu_monitor_active, cpu_thread>>
\* lines 1087-1098
admin_credits(a, u, amount) ==
  /\ IF ~is_admin(a) THEN
       \* reports "Access Denied"
       /\ UNCHANGED <<user_data, disk>>
     ELSE IF amount <= 0 THEN
       \* reports "Invalid Amount"
       /\ UNCHANGED <<user_data, disk>>
     ELSE
       LET ud1 == IF HasKey(user_data, u) THEN user_data ELSE Put(user_data, u, [credits |-> 0])
           ud == Put(ud1, u, [credits |-> Get(ud1, u).credits + amount])
       IN
       /\ Get(ud, u).credits <= MaxCredits
       /\ user_data' = ud
       /\ disk' = save_data(ud, vps_data, admin_data)
       \* reports "Credits Added"
  /\ UNCHANGED <<vps_data, admin_data, runtime, tasks, clock, allocated, cpu_monitor_active, cpu_thread>>

\* lines 1100-1126
admin_remove_credits(a, u, amount_or_all) ==
  /\ IF ~is_admin(a) THEN
       \* reports "Access Denied"
       /\ UNCHANGED <<user_data, disk>>
     ELSE
       LET ud1 == IF HasKey(user_data, u) THEN user_data ELSE Put(user_data, u, [credits |-> 0])
           current_credits == Get(ud1, u).credits
       IN
       IF Lower(amount_or_all) = "all" THEN
         LET ud == Put(ud1, u, [credits |-> 0]) IN
         /\ user_data' = ud
         /\ disk' = save_data(ud, vps_data, admin_data)
         \* reports "Credits Removed"
       ELSE IF IntOf(amount_or_all) = None \/ IntOf(amount_or_all)[1] <= 0 THEN
         \* ValueError, or a non-positive amount: return without saving
         /\ user_data' = ud1
         \* reports "Invalid Amount"
         /\ UNCHANGED disk
       ELSE
         LET amount == clamp(IntOf(amount_or_all)[1], current_credits)
             ud == Put(ud1, u, [credits |-> current_credits - amount])
         IN
         /\ user_data' = ud
         /\ disk' = save_data(ud, vps_data, admin_data)
         \* reports "Credits Removed"
  /\ UNCHANGED <<vps_data, admin_data, runtime, tasks, clock, allocated, cpu_monitor_active, cpu_thread>>

\* lines 1186-1195: .credits creates the account and saves
show_credits(u) ==
  /\ ~HasKey(user_data, u)
  /\ user_data' = Put(user_data, u, [credits |-> 0])
  /\ disk' = save_data(user_data', vps_data, admin_data)
  \* reports "Credit Balance"
  /\ UNCHANGED <<vps_data, admin_data, runtime, tasks, clock, allocated, cpu_monitor_active, cpu_thread>>

(* ---------------------------- start and stop -------------------------- *)
\* lxc start <name> / lxc stop <name>
lxc_set_state(rt, name, state) ==
  [rt EXCEPT ![name] = Some([rt[name][1] EXCEPT !.state = state])]
\* vps["status"] = ... on the dict a view holds
SetStatus(vd, oid, status) ==
  [u \in Users |->
     IF vd[u] = None THEN None
     ELSE Some([i \in 1..Len(vd[u][1]) |->
                  IF vd[u][1][i].oid = oid
                  THEN [vd[u][1][i] EXCEPT !.status = status]
                  ELSE vd[u][1][i]])]
\* the two buttons' statuses exchanged
verb_status_swapped(action) == IF action = "start" THEN "stopped" ELSE "running"
\* lines 383 and 394: the status that belongs to the verb
verb_status(action) == IF action = "start" THEN "running" ELSE "stopped"
PowerActions == {"start", "stop"}

\* lines 316-326, 379-380 and 390-391: Start or Stop is pressed on entry i, the
\* interaction is deferred and the lxc verb is started
power_request(t, u, i, action) ==
  /\ Free(t)
  /\ HasKey(vps_data, u)
  /\ i \in 1..Len(Get(vps_data, u))
  /\ tasks' = [tasks EXCEPT ![t] =
       [op |-> action, pc |-> "verb", user |-> u, oid |-> Get(vps_data, u)[i].oid,
        container_name |-> Get(vps_data, u)[i].container_name]]
  /\ UNCHANGED <<user_data, vps_data, admin_data, disk, runtime, clock, allocated, cpu_monitor_active, cpu_thread>>

\* lines 382-388 and 393-399: the lxc verb returns; on success the status is
\* set and saved, otherwise "Start Failed" / "Stop Failed" is sent
power_done(t) ==
  LET name == tasks[t].container_name
      status == verb_status(tasks[t].op)
      vd == SetStatus(vps_data, tasks[t].oid, status)
  IN
  /\ tasks[t].op \in PowerActions
  /\ tasks[t].pc = "verb"
  /\ \/ \* lxc refuses to start a running and to stop a stopped instance
        /\ Exists(name)
        /\ runtime[name][1].state # status
        /\ runtime' = lxc_set_state(runtime, name, status)
        /\ vps_data' = vd
        /\ disk' = save_data(user_data, vd, admin_data)
     \/ \* the verb fails or times out
        /\ UNCHANGED <<vps_data, disk, runtime>>
  /\ Finish(t)
  /\ UNCHANGED <<user_data, admin_data, clock, allocated, cpu_monitor_active, cpu_thread>>

(* --------------------------- management views ------------------------- *)
\* ManageView.__init__ (lines 230-255): the view of user_id over the records of
\* owner_id. A view over one record has it selected (index 0) and shows the
\* buttons; a longer list shows the dropdown, with one option per record.
\* vps_list of an owner's or an admin's view is the stored list object itself;
\* "detached" says that the stored entry was deleted since, which leaves the
\* view with the emptied list. "selected" is history: the oid of the record the
\* view shows, 0 while none is selected.
ManageView(user_id, vps_list, is_shared, owner_id, as_admin) ==
  [op |-> "manage",
   pc |-> IF Len(vps_list) > 1 THEN "select" ELSE "buttons",
   user_id |-> user_id, owner_id |-> owner_id,
   is_shared |-> is_shared, is_admin |-> as_admin,
   options |-> Len(vps_list),
   selected_index |-> IF Len(vps_list) > 1 THEN None ELSE Some(0),
   detached |-> FALSE,
   selected |-> IF Len(vps_list) > 1 THEN 0 ELSE vps_list[1].oid]

\* self.vps_list as the view finds it
view_list(view) ==
  IF view.detached THEN <<>> ELSE Records(vps_data, view.owner_id)

\* lines 664-689: .manage, on the caller's own records or, for an admin, on
\* the records of the user named
manage_vps(t, author, user) ==
  /\ Free(t)
  /\ IF user # None THEN
       IF ~is_admin(author) THEN
         \* reports "Access Denied"
         UNCHANGED tasks
       ELSE IF Records(vps_data, user[1]) = <<>> THEN
         \* reports "No VPS Found"
         UNCHANGED tasks
       ELSE
         tasks' = [tasks EXCEPT ![t] =
           ManageView(author, Records(vps_data, user[1]), FALSE, user[1], TRUE)]
     ELSE
       IF author \notin Users \/ Records(vps_data, author) = <<>> THEN
         \* reports "No VPS Found"
         UNCHANGED tasks
       ELSE
         tasks' = [tasks EXCEPT ![t] =
           ManageView(author, Records(vps_data, author), FALSE, author, FALSE)]
  /\ UNCHANGED <<user_data, vps_data, admin_data, disk, runtime, clock, allocated, cpu_monitor_active, cpu_thread>>

\* lines 739-752: .manage-shared <owner> <vps_number>; the view is built over
\* the one-element list [vps]
manage_shared_vps(t, author, owner, vps_number) ==
  /\ Free(t)
  /\ IF ~HasKey(vps_data, owner) \/ vps_number < 1 \/ vps_number > Len(Get(vps_data, owner)) THEN
       \* reports "Invalid VPS"
       UNCHANGED tasks
     ELSE
       LET vps == Get(vps_data, owner)[vps_number] IN
       IF author \notin Elems(vps.shared_with) THEN
         \* reports "Access Denied"
         UNCHANGED tasks
       ELSE
         tasks' = [tasks EXCEPT ![t] = ManageView(author, <<vps>>, TRUE, owner, FALSE)]
  /\ UNCHANGED <<user_data, vps_data, admin_data, disk, runtime, clock, allocated, cpu_monitor_active, cpu_thread>>

\* lines 307 and 317: the check that opens select_vps and action_callback
not_your_vps(presser, view) == presser # view.user_id /\ ~view.is_admin

\* lines 306-314: an option of the dropdown is chosen; value is its index
select_vps(t, presser, value) ==
  /\ At(t, "manage", "select")
  /\ value \in 0..(tasks[t].options - 1)
  /\ IF not_your_vps(presser, tasks[t]) THEN
       \* reports "Access Denied"
       UNCHANGED tasks
     ELSE
       LET shown == view_list(tasks[t]) IN
       IF value + 1 > Len(shown) THEN
         \* IndexError in create_vps_embed: the selection is kept, no buttons
         tasks' = [tasks EXCEPT ![t].selected_index = Some(value)]
       ELSE
         tasks' = [tasks EXCEPT ![t].selected_index = Some(value),
                                ![t].selected = shown[value + 1].oid,
                                ![t].pc = "buttons"]
  /\ UNCHANGED <<user_data, vps_data, admin_data, disk, runtime, clock, allocated, cpu_monitor_active, cpu_thread>>

\* a shared session and an admin's view get no reinstall
reinstall_denied_shared_only(view) == view.is_shared
\* line 329: if self.is_shared or self.is_admin
reinstall_denied(view) == view.is_shared \/ view.is_admin

\* the buttons of add_action_buttons that the model presses
ViewActions == PowerActions \cup {"reinstall"}

\* lines 316-337 and 377-391: a button of the view is pressed. The record is
\* looked up by selected_index at this moment; Start and Stop defer the
\* interaction and start the lxc verb, Reinstall shows the confirmation view.
\* The slot of the view goes on as the handler of the button.
action_callback(t, presser, action) ==
  LET view == tasks[t]
      looked_up == IF view.is_shared THEN Records(vps_data, view.owner_id) ELSE view_list(view)
      i == view.selected_index[1] + 1
  IN
  /\ At(t, "manage", "buttons")
  /\ IF not_your_vps(presser, view) THEN
       \* reports "Access Denied"
       UNCHANGED <<tasks>>
     ELSE IF i > Len(looked_up) THEN
       \* KeyError or IndexError: the interaction fails
       UNCHANGED <<tasks>>
     ELSE
       LET vps == looked_up[i] IN
       IF action = "reinstall" THEN
         IF reinstall_denied(view) THEN
           \* reports "Only the VPS owner can reinstall!"
           UNCHANGED <<tasks>>
         ELSE
           /\ CanStamp
           /\ tasks' = [tasks EXCEPT ![t] =
                [op |-> "reinstall", pc |-> "confirm", user |-> view.owner_id,
                 oid |-> vps.oid, vps |-> vps, container_name |-> vps.container_name,
                 ram_mb |-> 0, original_cpu |-> Str(0), storage_gb |-> 0,
                 by |-> presser, selected |-> view.selected]]
       ELSE
         tasks' = [tasks EXCEPT ![t] =
           [op |-> action, pc |-> "verb", user |-> view.owner_id, oid |-> vps.oid,
            container_name |-> vps.container_name,
            by |-> presser, selected |-> view.selected]]
  /\ UNCHANGED <<user_data, vps_data, admin_data, disk, runtime, clock, allocated, cpu_monitor_active, cpu_thread>>

\* line 231: timeout=300, the view stops taking interactions
view_timeout(t) ==
  /\ tasks[t].op = "manage"
  /\ Finish(t)
  /\ UNCHANGED <<user_data, vps_data, admin_data, disk, runtime, clock, allocated, cpu_monitor_active, cpu_thread>>

(* -------------------------------- resize ------------------------------ *)
ResizeArgs ==
  { [ram |-> Some(8), cpu |-> None, storage |-> None],
    [ram |-> None, cpu |-> None, storage |-> Some(50)],
    [ram |-> Some(4), cpu |-> Some(2), storage |-> Some(50)],
    [ram |-> None, cpu |-> None, storage |-> None] }
\* `if ram:` - None and 0 are skipped
Given(x) == x # None /\ x[1] # 0
\* the first dimension at or after position k of ram, cpu, storage that was given
NextDimension(arg, k) ==
  IF k <= 1 /\ Given(arg.ram) THEN "ram"
  ELSE IF k <= 2 /\ Given(arg.cpu) THEN "cpu"
  ELSE IF k <= 3 /\ Given(arg.storage) THEN "storage"
  ELSE "save"
\* lxc config set <name> limits.memory <n>MB / limits.cpu <n>
lxc_set_memory(rt, name, ram_mb) == [rt EXCEPT ![name] = Some([rt[name][1] EXCEPT !.ram_mb = ram_mb])]
lxc_set_cpu(rt, name, cpu) == [rt EXCEPT ![name] = Some([rt[name][1] EXCEPT !.cpu = cpu])]
\* lines 1077-1080: every record with that container_name gets the new storage
set_storage(vd, container, storage) ==
  [u \in Users |->
     IF vd[u] = None THEN None
     ELSE Some([i \in 1..Len(vd[u][1]) |->
                  IF vd[u][1][i].container_name = container
                  THEN [vd[u][1][i] EXCEPT !.storage = FmtGB(storage)]
                  ELSE vd[u][1][i]])]

\* lines 1081-1082: save_data(), then "VPS Resized" is being sent
resize_save(t, ts, rt, vd) ==
  /\ runtime' = rt
  /\ vps_data' = vd
  /\ disk' = save_data(user_data, vd, admin_data)
  /\ tasks' = [ts EXCEPT ![t].pc = "reply"]
\* the next runtime call is started, or the handler goes on to line 1081
resize_continue(t, ts, rt, k) ==
  LET pc == NextDimension(ts[t].arg, k) IN
  IF pc = "save" THEN resize_save(t, ts, rt, vps_data)
  ELSE /\ runtime' = rt
       /\ tasks' = [ts EXCEPT ![t].pc = pc]
       /\ UNCHANGED <<vps_data, disk>>

\* the failed call's effect on the store, were the new storage written anyway
resize_failed_stores(t) ==
  /\ vps_data' = IF Given(tasks[t].arg.storage)
                 THEN set_storage(vps_data, tasks[t].container, tasks[t].arg.storage[1])
                 ELSE vps_data
  /\ disk' = save_data(user_data, vps_data', admin_data)
  /\ Finish(t)
  /\ UNCHANGED runtime
\* lines 1083-1084: except Exception -> "Resize Failed"
resize_failed(t) ==
  /\ Finish(t)
  /\ UNCHANGED <<vps_data, disk, runtime>>

\* lines 1064-1069: permission check, then the first supplied dimension
resize_vps(t, a, container, arg) ==
  /\ Free(t)
  /\ IF ~is_admin(a) THEN
       \* reports "Access Denied"
       UNCHANGED <<vps_data, disk, runtime, tasks>>
     ELSE
       resize_continue(t, [tasks EXCEPT ![t] = [op |-> "resize", pc |-> "start", container |-> container,
                                                arg |-> arg, done |-> {}]], runtime, 1)
  /\ UNCHANGED <<user_data, admin_data, clock, allocated, cpu_monitor_active, cpu_thread>>

\* line 1071: lxc config set limits.memory returns
resize_ram(t) ==
  LET name == tasks[t].container IN
  /\ At(t, "resize", "ram")
  /\ \/ /\ Exists(name)
        /\ resize_continue(t, [tasks EXCEPT ![t].done = @ \cup {"ram"}],
                           lxc_set_memory(runtime, name, tasks[t].arg.ram[1] * 1024), 2)
     \/ resize_failed(t)
  /\ UNCHANGED <<user_data, admin_data, clock, allocated, cpu_monitor_active, cpu_thread>>

\* line 1073: lxc config set limits.cpu returns
resize_cpu(t) ==
  LET name == tasks[t].container IN
  /\ At(t, "resize", "cpu")
  /\ \/ /\ Exists(name)
        /\ resize_continue(t, [tasks EXCEPT ![t].done = @ \cup {"cpu"}],
                           lxc_set_cpu(runtime, name, tasks[t].arg.cpu[1]), 3)
     \/ resize_failed(t)
  /\ UNCHANGED <<user_data, admin_data, clock, allocated, cpu_monitor_active, cpu_thread>>

\* line 201 via 1075: lxc config device override returns
resize_storage(t) ==
  LET name == tasks[t].container IN
  /\ At(t, "resize", "storage")
  /\ \/ /\ Exists(name)
        /\ runtime' = lxc_override(runtime, name, tasks[t].arg.storage[1])
        /\ tasks' = [tasks EXCEPT ![t].pc = "grow", ![t].done = @ \cup {"storage"}]
        /\ UNCHANGED <<vps_data, disk>>
     \/ resize_failed(t)
  /\ UNCHANGED <<user_data, admin_data, clock, allocated, cpu_monitor_active, cpu_thread>>

\* lines 207-217, then 1076-1082: the in-guest grow returns (its failure is only
\* logged), the matching records get the new storage, save_data()
resize_store(t) ==
  /\ At(t, "resize", "grow")
  /\ \E result \in GrowResults :
       IF grow_raises(result) THEN resize_failed(t)
       ELSE resize_save(t, tasks, runtime,
                        set_storage(vps_data, tasks[t].container, tasks[t].arg.storage[1]))
  /\ UNCHANGED <<user_data, admin_data, clock, allocated, cpu_monitor_active, cpu_thread>>

\* line 1082: the "VPS Resized" message is sent (or the send raises and
\* "Resize Failed" is sent instead)
resize_reply(t) ==
  /\ At(t, "resize", "reply")
  /\ Finish(t)
  /\ UNCHANGED <<user_data, vps_data, admin_data, disk, runtime, clock, allocated, cpu_monitor_active, cpu_thread>>

(* ----------------------------- CPU monitor ---------------------------- *)
CPU_THRESHOLD == 90
\* what `top -bn1` gives: a busy percentage, or None when it cannot be read
SampleResults == {Some(5), Some(95), None}
\* an unreadable sample counted as full load
get_cpu_usage_full(result) == IF result = None THEN 100 ELSE result[1]
\* lines 151-168: every error ends in `return 0.0`
get_cpu_usage(result) == IF result = None THEN 0 ELSE result[1]
\* line 176: cpu_usage > CPU_THRESHOLD
over_threshold(cpu_usage) == cpu_usage > CPU_THRESHOLD

\* lxc stop --all --force
lxc_stop_all(rt) ==
  [n \in DOMAIN rt |-> IF rt[n] = None THEN None ELSE Some([rt[n][1] EXCEPT !.state = "stopped"])]
Keys(table) == {u \in DOMAIN table : HasKey(table, u)}
RunningOids(vd) == {r.oid : r \in {x \in AllRecords(vd) : x.status = "running"}}

\* the exit test of the loop: the thread returns when the flag is off
exits_loop(active) == ~active
\* line 172: while cpu_monitor_active
cpu_monitor_loop ==
  /\ cpu_thread.pc = "check"
  /\ cpu_thread' = [cpu_thread EXCEPT !.pc = IF exits_loop(cpu_monitor_active) THEN "exited" ELSE "sample"]
  /\ UNCHANGED <<user_data, vps_data, admin_data, disk, runtime, tasks, clock, allocated, cpu_monitor_active>>

\* lines 174-177: the sample is taken and compared with the threshold
cpu_monitor_sample ==
  /\ cpu_thread.pc = "sample"
  /\ \E result \in SampleResults :
       LET cpu_usage == get_cpu_usage(result) IN
       cpu_thread' = [cpu_thread EXCEPT
                        !.pc = IF over_threshold(cpu_usage) THEN "stop_all" ELSE "sleep",
                        !.last = IF result = None THEN "sample_error" ELSE "sampled"]
  /\ UNCHANGED <<user_data, vps_data, admin_data, disk, runtime, tasks, clock, allocated, cpu_monitor_active>>

\* lines 179-180: subprocess.run(lxc stop --all --force, check=True) returns and
\* the iteration over vps_data.items() begins; lines 185-186 when it raises
cpu_monitor_stop_all ==
  /\ cpu_thread.pc = "stop_all"
  /\ \/ /\ runtime' = lxc_stop_all(runtime)
        /\ cpu_thread' = [cpu_thread EXCEPT !.pc = "pass", !.seen = {}, !.detached = FALSE,
                            !.size = Cardinality(Keys(vps_data)),
                            !.were_running = RunningOids(vps_data)]
     \/ \* logs "Failed to stop all VPS"
        /\ cpu_thread' = [cpu_thread EXCEPT !.pc = "sleep", !.last = "stop_failed"]
        /\ UNCHANGED runtime
  /\ UNCHANGED <<user_data, vps_data, admin_data, disk, tasks, clock, allocated, cpu_monitor_active>>

\* line 180: the dict iterator advances (RuntimeError when the dict changed
\* size); after the last entry, line 184: save_data().  The order of insertion
\* of the keys is not kept in vps_data, any entry not yet visited can be next.
cpu_monitor_next_owner ==
  /\ cpu_thread.pc = "pass"
  /\ IF Cardinality(Keys(vps_data)) # cpu_thread.size THEN
       \* caught at line 185, logs "Failed to stop all VPS"
       /\ cpu_thread' = [cpu_thread EXCEPT !.pc = "sleep", !.last = "pass_error"]
       /\ UNCHANGED disk
     ELSE IF Keys(vps_data) \ cpu_thread.seen = {} THEN
       /\ disk' = save_data(user_data, vps_data, admin_data)
       /\ cpu_thread' = [cpu_thread EXCEPT !.pc = "sleep", !.last = "stopped_all"]
     ELSE
       /\ \E u \in Keys(vps_data) \ cpu_thread.seen :
            cpu_thread' = [cpu_thread EXCEPT !.pc = "list", !.user = u, !.idx = 1,
                             !.seen = @ \cup {u}, !.detached = FALSE]
       /\ UNCHANGED disk
  /\ UNCHANGED <<user_data, vps_data, admin_data, runtime, tasks, clock, allocated, cpu_monitor_active>>

\* lines 181-183: the list iterator advances by position; a running record
\* becomes stopped
cpu_monitor_record ==
  LET u == cpu_thread.user
      vps_list == IF cpu_thread.detached THEN <<>> ELSE Records(vps_data, u)
      i == cpu_thread.idx
  IN
  /\ cpu_thread.pc = "list"
  /\ IF i > Len(vps_list) THEN
       /\ cpu_thread' = [cpu_thread EXCEPT !.pc = "pass"]
       /\ UNCHANGED vps_data
     ELSE
       /\ cpu_thread' = [cpu_thread EXCEPT !.idx = i + 1]
       /\ vps_data' = IF vps_list[i].status = "running"
                      THEN Put(vps_data, u, [vps_list EXCEPT ![i].status = "stopped"])
                      ELSE vps_data
  /\ UNCHANGED <<user_data, admin_data, disk, runtime, tasks, clock, allocated, cpu_monitor_active>>

\* a monitor that reads the state of every container back into its record
cpu_monitor_sleep_reconciles ==
  /\ cpu_thread.pc = "sleep"
  /\ cpu_thread' = [cpu_thread EXCEPT !.pc = "check"]
  /\ vps_data' = [u \in Users |->
                    IF vps_data[u] = None THEN None
                    ELSE Some([i \in 1..Len(vps_data[u][1]) |->
                                 LET r == vps_data[u][1][i] IN
                                 IF Exists(r.container_name)
                                 THEN [r EXCEPT !.status = runtime[r.container_name][1].state]
                                 ELSE r])]
  /\ UNCHANGED <<user_data, admin_data, disk, runtime, tasks, clock, allocated, cpu_monitor_active>>
\* lines 187 and 190: time.sleep(CHECK_INTERVAL) returns
cpu_monitor_sleep ==
  /\ cpu_thread.pc = "sleep"
  /\ cpu_thread' = [cpu_thread EXCEPT !.pc = "check"]
  /\ UNCHANGED <<user_data, vps_data, admin_data, disk, runtime, tasks, clock, allocated, cpu_monitor_active>>

ControlActions == {"status", "enable", "disable", "restart"}
\* lines 1044-1061: cpu-monitor <status|enable|disable>
cpu_monitor_control(a, action) ==
  /\ IF ~is_admin(a) THEN
       \* reports "Access Denied"
       UNCHANGED cpu_monitor_active
     ELSE IF Lower(action) = "enable" THEN cpu_monitor_active' = TRUE
     ELSE IF Lower(action) = "disable" THEN cpu_monitor_active' = FALSE
     ELSE \* the status embed, or "Invalid Action"
       UNCHANGED cpu_monitor_active
  /\ UNCHANGED <<user_data, vps_data, admin_data, disk, runtime, tasks, clock, allocated, cpu_thread>>

(* ----------------------------- admin roster --------------------------- *)
\* lines 94-100: only the main admin passes
is_main_admin(user_id) == user_id = MAIN_ADMIN_ID

\* lines 1128-1141: admin-add <user>; what follows only sends messages
admin_add(a, user) ==
  IF ~is_main_admin(a) THEN
    \* reports "Access Denied"
    UNCHANGED vars
  ELSE IF user = MAIN_ADMIN_ID THEN
    \* reports "Already Admin"
    UNCHANGED vars
  ELSE IF user \in Elems(admin_data) THEN
    \* reports "Already Admin"
    UNCHANGED vars
  ELSE
    /\ admin_data' = Append(admin_data, user)
    /\ disk' = save_data(user_data, vps_data, admin_data')
    \* reports "Admin Added"
    /\ UNCHANGED <<user_data, vps_data, runtime, tasks, clock, allocated, cpu_monitor_active, cpu_thread>>

\* lines 1148-1159: admin-remove <user>; what follows only sends messages
admin_remove(a, user) ==
  IF ~is_main_admin(a) THEN
    \* reports "Access Denied"
    UNCHANGED vars
  ELSE IF user = MAIN_ADMIN_ID THEN
    \* reports "Cannot Remove"
    UNCHANGED vars
  ELSE IF user \notin Elems(admin_data) THEN
    \* reports "Not Admin"
    UNCHANGED vars
  ELSE
    /\ admin_data' = RemoveFirst(admin_data, user)
    /\ disk' = save_data(user_data, vps_data, admin_data')
    \* reports "Admin Removed"
    /\ UNCHANGED <<user_data, vps_data, runtime, tasks, clock, allocated, cpu_monitor_active, cpu_thread>>

(* ------------------------------- stop all ----------------------------- *)
\* lines 1023-1027: every record that is running becomes stopped
StopRunning(vd) ==
  [u \in Users |->
     IF vd[u] = None THEN None
     ELSE Some([i \in 1..Len(vd[u][1]) |->
                  IF vd[u][1][i].status = "running"
                  THEN [vd[u][1][i] EXCEPT !.status = "stopped"]
                  ELSE vd[u][1][i]])]

\* lines 998-1002 and 1041: stop-vps-all; the warning and the view with the two
\* buttons are sent to the channel
stop_all_vps(t, a) ==
  /\ Free(t)
  /\ IF ~is_admin(a) THEN
       \* reports "Access Denied"
       UNCHANGED tasks
     ELSE
       tasks' = [tasks EXCEPT ![t] = [op |-> "stop-vps-all", pc |-> "view", by |-> a]]
  /\ UNCHANGED <<user_data, vps_data, admin_data, disk, runtime, clock, allocated, cpu_monitor_active, cpu_thread>>

\* lines 1008-1016: somebody who sees the message presses "Stop All VPS"; the
\* interaction is deferred and lxc stop --all --force is started
stop_all_confirm(t, a) ==
  /\ At(t, "stop-vps-all", "view")
  /\ tasks' = [tasks EXCEPT ![t] = [op |-> "stop-vps-all", pc |-> "stop", by |-> a]]
  /\ UNCHANGED <<user_data, vps_data, admin_data, disk, runtime, clock, allocated, cpu_monitor_active, cpu_thread>>

\* lines 1017-1036: the subprocess returns; with return code 0 the statuses are
\* set and saved
stop_all_done(t) ==
  /\ At(t, "stop-vps-all", "stop")
  /\ \/ LET vd == StopRunning(vps_data) IN
        /\ runtime' = lxc_stop_all(runtime)
        /\ vps_data' = vd
        /\ disk' = save_data(user_data, vd, admin_data)
        \* reports "All VPS Stopped"
     \/ \* a return code other than 0, or an exception: reports "Stop Failed"
        UNCHANGED <<vps_data, disk, runtime>>
  /\ Finish(t)
  /\ UNCHANGED <<user_data, admin_data, clock, allocated, cpu_monitor_active, cpu_thread>>

\* lines 1038-1039: Cancel is pressed (or the view times out after 60 s)
stop_all_cancel(t) ==
  /\ At(t, "stop-vps-all", "view")
  /\ Finish(t)
  /\ UNCHANGED <<user_data, vps_data, admin_data, disk, runtime, clock, allocated, cpu_monitor_active, cpu_thread>>

(* -------------------------------- restart ----------------------------- *)
\* lines 906-911: in every owner's list the first record of that name becomes
\* running (the break leaves the inner loop only)
SetFirstRunning(vd, container_name) ==
  [u \in Users |->
     IF vd[u] = None THEN None
     ELSE Some([i \in 1..Len(vd[u][1]) |->
                  IF /\ vd[u][1][i].container_name = container_name
                     /\ \A j \in 1..(i - 1) : vd[u][1][j].container_name # container_name
                  THEN [vd[u][1][i] EXCEPT !.status = "running"]
                  ELSE vd[u][1][i]])]

\* lines 899-905: restart-vps <container>; the message is sent and lxc restart
\* is started
restart_vps(t, a, container_name) ==
  /\ Free(t)
  /\ IF ~is_admin(a) THEN
       \* reports "Access Denied"
       UNCHANGED tasks
     ELSE
       tasks' = [tasks EXCEPT ![t] = [op |-> "restart-vps", pc |-> "restart",
                                      container_name |-> container_name]]
  /\ UNCHANGED <<user_data, vps_data, admin_data, disk, runtime, clock, allocated, cpu_monitor_active, cpu_thread>>

\* lines 905-914: lxc restart returns; the record is set to running and saved
\* when there is one, else nothing is saved
restart_done(t) ==
  LET name == tasks[t].container_name
      vd == SetFirstRunning(vps_data, name)
  IN
  /\ At(t, "restart-vps", "restart")
  /\ \/ \* lxc restarts an instance that is running
        /\ Exists(name)
        /\ runtime[name][1].state = "running"
        /\ vps_data' = vd
        /\ disk' = IF \E r \in AllRecords(vps_data) : r.container_name = name
                   THEN save_data(user_data, vd, admin_data) ELSE disk
        /\ UNCHANGED runtime
        \* reports "VPS Restarted"
     \/ \* reports "Restart Failed"
        UNCHANGED <<vps_data, disk, runtime>>
  /\ Finish(t)
  /\ UNCHANGED <<user_data, admin_data, clock, allocated, cpu_monitor_active, cpu_thread>>

(* --------------------------- the whole program ------------------------ *)
VpsNumbers == 0..MaxClock

\* the handlers, grouped by command; Os are the users whose accounts and
\* containers the commands name
Purchase(Os) ==
  \/ \E t \in Tasks, u \in Os, b \in BuyArgs :
       buy_with_credits(t, u, b.plan, b.processor, b.storage)
  \/ \E t \in Tasks : buy_send(t)
  \/ \E t \in Tasks : buy_launch(t)
  \/ \E t \in Tasks : buy_quota(t)
  \/ \E t \in Tasks : buy_append(t)
  \/ \E t \in Tasks : buy_notify(t)

Create(Os) ==
  \/ \E t \in Tasks, a \in Actors, u \in Os, arg \in CreateArgs : create_vps(t, a, u, arg)
  \/ \E t \in Tasks : create_launch(t)
  \/ \E t \in Tasks : create_quota(t)
  \/ \E t \in Tasks : create_append(t)

Delete(Os) ==
  \/ \E t \in Tasks, a \in Actors, u \in Os, k \in VpsNumbers : delete_vps(t, a, u, k)
  \/ \E t \in Tasks : delete_remove(t)
  \/ \E t \in Tasks : delete_role(t)

Reinstall(Os) ==
  \/ \E t \in Tasks, u \in Os, i \in VpsNumbers : reinstall_request(t, u, i)
  \/ \E t \in Tasks : reinstall_cancel(t)
  \/ \E t \in Tasks : reinstall_confirm(t)
  \/ \E t \in Tasks : reinstall_send(t)
  \/ \E t \in Tasks : reinstall_launch(t)
  \/ \E t \in Tasks : reinstall_quota(t)
  \/ \E t \in Tasks : reinstall_finish(t)

Sharing(Os) ==
  \/ \E u \in Os, g \in Users, k \in VpsNumbers : share_user(u, g, k)
  \/ \E u \in Os, g \in Users, k \in VpsNumbers : revoke_share(u, g, k)

Credits(Os) ==
  \/ \E a \in Actors, u \in Os, n \in GrantAmounts : admin_credits(a, u, n)
  \/ \E a \in Actors, u \in Os, x \in RevokeTokens : admin_remove_credits(a, u, x)
  \/ \E u \in Os : show_credits(u)

\* the credit grant alone
Grant(Os) == \E a \in Actors, u \in Os, n \in GrantAmounts : admin_credits(a, u, n)

Power(Os) ==
  \/ \E t \in Tasks, u \in Os, i \in VpsNumbers, action \in PowerActions : power_request(t, u, i, action)
  \/ \E t \in Tasks : power_done(t)

Resize(Os) ==
  \/ \E t \in Tasks, a \in Actors, u \in Os, n \in 1..2, arg \in ResizeArgs : resize_vps(t, a, Name(u, n), arg)
  \/ \E t \in Tasks : resize_ram(t)
  \/ \E t \in Tasks : resize_cpu(t)
  \/ \E t \in Tasks : resize_storage(t)
  \/ \E t \in Tasks : resize_store(t)
  \/ \E t \in Tasks : resize_reply(t)

Monitor ==
  \/ cpu_monitor_loop
  \/ cpu_monitor_sample
  \/ cpu_monitor_stop_all
  \/ cpu_monitor_next_owner
  \/ cpu_monitor_record
  \/ cpu_monitor_sleep

Control ==
  \E a \in Actors, action \in ControlActions : cpu_monitor_control(a, action)

\* the users admin-add and admin-remove are given
RosterTargets == {MAIN_ADMIN_ID, "u1"}
Roster ==
  \/ \E a \in Actors, user \in RosterTargets : admin_add(a, user)
  \/ \E a \in Actors, user \in RosterTargets : admin_remove(a, user)

StopAll ==
  \/ \E t \in Tasks, a \in Actors : stop_all_vps(t, a)
  \/ \E t \in Tasks, a \in Actors : stop_all_confirm(t, a)
  \/ \E t \in Tasks : stop_all_done(t)
  \/ \E t \in Tasks : stop_all_cancel(t)

Restart(Os) ==
  \/ \E t \in Tasks, a \in Actors, u \in Os, n \in 1..2 : restart_vps(t, a, Name(u, n))
  \/ \E t \in Tasks : restart_done(t)

\* the management views: the two commands that open one, and its widgets
ManageTargets(Os) == {None} \cup {Some(u) : u \in Os}
Views(Os) ==
  \/ \E t \in Tasks, author \in Actors, user \in ManageTargets(Os) : manage_vps(t, author, user)
  \/ \E t \in Tasks, author \in Users, owner \in Os, k \in VpsNumbers :
       manage_shared_vps(t, author, owner, k)
  \/ \E t \in Tasks, presser \in Actors, value \in VpsNumbers : select_vps(t, presser, value)
  \/ \E t \in Tasks, presser \in Actors, action \in ViewActions : action_callback(t, presser, action)
  \/ \E t \in Tasks : view_timeout(t)

\* Start and Stop run to their end, a Reinstall is answered with Cancel
Buttons ==
  \/ \E t \in Tasks : power_done(t)
  \/ \E t \in Tasks : reinstall_cancel(t)

\* .share-user naming a user who owns nothing
Grantee(Os) == \E u \in Os, g \in Users \ Os, k \in VpsNumbers : share_user(u, g, k)

\* what the buttons of a view start
Pressed ==
  \/ \E t \in Tasks : power_done(t)
  \/ \E t \in Tasks : reinstall_cancel(t)
  \/ \E t \in Tasks : reinstall_confirm(t)
  \/ \E t \in Tasks : reinstall_send(t)
  \/ \E t \in Tasks : reinstall_launch(t)
  \/ \E t \in Tasks : reinstall_quota(t)
  \/ \E t \in Tasks : reinstall_finish(t)

Next ==
  \/ Purchase(Users) \/ Create(Users) \/ Delete(Users)
  \/ Reinstall(Users) \/ Sharing(Users) \/ Credits(Users)
  \/ Power(Users) \/ Resize(Users) \/ Monitor \/ Control
  \/ Roster \/ StopAll \/ Restart(Users)
  \/ Views(Users) \/ Pressed

Spec == Init /\ [][Next]_vars

\* The program restricted to the commands a group of properties is about, all
\* of them naming one owner.
Solo == {"u1"}

\* purchases and the credit commands
NextPurchase == Purchase(Solo) \/ Credits(Solo)
SpecPurchase == Init /\ [][NextPurchase]_vars

\* everything that creates, removes or recreates containers
NextNames == Create(Solo) \/ Delete(Solo) \/ Reinstall(Solo)
SpecNames == Init /\ [][NextNames]_vars

\* sharing, on records that are created and deleted
NextShare == Create(Solo) \/ Delete(Solo) \/ Sharing(Solo)
SpecShare == Init /\ [][NextShare]_vars

\* the Start and Stop buttons, on records that are created and deleted
NextPower == Create(Solo) \/ Delete(Solo) \/ Power(Solo)
SpecPower == Init /\ [][NextPower]_vars

\* resize, on records that are created
NextResize == Create(Solo) \/ Resize(Solo)
SpecResize == Init /\ [][NextResize]_vars

\* the monitor's pass over a store that creates and deletes change meanwhile
NextGuard == Create(Solo) \/ Delete(Solo) \/ Monitor
SpecGuard == Init /\ [][NextGuard]_vars

\* the monitor thread and its switch; the thread is scheduled again and again,
\* and every sleep and every subprocess of it returns
NextToggle == Create(Solo) \/ Monitor \/ Control
SpecToggle == Init /\ [][NextToggle]_vars /\ WF_vars(Monitor)

\* the commands reserved to admins, and the roster that admits them
NextAdmin == Roster \/ Credits(Solo) \/ Create(Solo) \/ StopAll \/ Control
SpecAdmin == Init /\ [][NextAdmin]_vars

\* the Start and Stop buttons against the monitor's stop of everything
NextRace == Create(Solo) \/ Power(Solo) \/ Monitor
SpecRace == Init /\ [][NextRace]_vars

\* the two commands that provision a container and append its record
NextProvision == Create(Solo) \/ Purchase(Solo) \/ Grant(Solo)
SpecProvision == Init /\ [][NextProvision]_vars

\* the management views over records that are created and deleted
NextManage == Create(Solo) \/ Delete(Solo) \/ Views(Solo) \/ Pressed
SpecManage == Init /\ [][NextManage]_vars

\* the views over records that are shared and unshared; a Reinstall that is
\* let through is cancelled at its confirmation
NextShared == Create(Solo) \/ Sharing(Solo) \/ Views(Solo) \/ Buttons
SpecShared == Init /\ [][NextShared]_vars

\* the views of an owner, of an admin and of a grantee, side by side
NextOwnerOnly == Create(Solo) \/ Grantee(Solo) \/ Views(Solo) \/ Buttons
SpecOwnerOnly == Init /\ [][NextOwnerOnly]_vars

(* ------------------------------ properties ---------------------------- *)
AllIdle == \A t \in Tasks : tasks[t] = Idle
Flushed == disk = save_data(user_data, vps_data, admin_data)
\* what load_json_file would read back: a document, or the default while the
\* file does not exist
Loaded(doc, default) == IF doc = None THEN default ELSE doc[1]
Persisted ==
  /\ Loaded(disk.user, [u \in Users |-> None]) = user_data
  /\ Loaded(disk.vps, [u \in Users |-> None]) = vps_data
  /\ Loaded(disk.admin, <<MAIN_ADMIN_ID>>) = admin_data
\* no handler is in flight and the monitor is not inside a pass over the records
Quiet == AllIdle /\ cpu_thread.pc \notin {"stop_all", "pass", "list"}
\* the record's status differs from the state of its container
Diverged(r) == Exists(r.container_name) /\ r.status # runtime[r.container_name][1].state
NoDuplicates(s) == \A i \in 1..Len(s), j \in 1..Len(s) : i # j => s[i] # s[j]

\* C1: every purchase that completes has either appended one record and kept
\* the price, or appended no record and kept nothing of the price.
C1_PurchaseAllOrNothing ==
  [][\A t \in Tasks :
       (tasks[t].op = "buywc" /\ tasks'[t] = Idle) =>
         LET u == tasks[t].user
             net == tasks[t].spent - (Balance(user_data', u) - Balance(user_data, u))
         IN \/ tasks[t].recs = 1 /\ net = tasks[t].cost
            \/ tasks[t].recs = 0 /\ net = 0]_vars

\* C2: when lxc launch or the host quota override of a purchase fails, the
\* price is added back to the balance, no record is appended and the three
\* documents are rewritten.
C2_ProvisioningFailureRefunds ==
  [][\A t \in Tasks :
       (tasks[t].op = "buywc" /\ tasks[t].pc \in {"launch", "quota"} /\ tasks'[t] = Idle) =>
         LET u == tasks[t].user IN
         /\ Balance(user_data', u) = Balance(user_data, u) + tasks[t].cost
         /\ \A v \in Users \ {u} : user_data'[v] = user_data[v]
         /\ vps_data' = vps_data
         /\ tasks[t].recs = 0
         /\ disk' = save_data(user_data', vps_data', admin_data')]_vars

\* a purchase was refunded after its quota override failed: the container it
\* launched is left without a size, no record exists, the balance is whole
C2_RefundedAfterQuotaFailure ==
  /\ AllIdle
  /\ Exists(Name("u1", 1)) /\ runtime[Name("u1", 1)][1].size_gb = 0
  /\ Records(vps_data, "u1") = <<>>
  /\ Balance(user_data, "u1") = 100
  /\ Flushed

\* C3: a purchase by an owner whose balance is below the price is rejected
\* before any effect: the balance (0 for an owner without an account) stays, no
\* record and no owner entry is made, nothing is written to the documents, no
\* name is allocated and no call to the runtime is started.
C3_InsufficientCreditsNoEffect ==
  [][\A t \in Tasks, u \in Users, b \in BuyArgs :
       LET plan == Capitalize(b.plan)
           processor == Capitalize(b.processor)
       IN
       (/\ buy_with_credits(t, u, b.plan, b.processor, b.storage)
        /\ plan \in DOMAIN PRICES
        /\ processor \in {"Intel", "AMD", "Amd"}
        /\ Balance(user_data, u) < PRICES[plan][processor_key(processor)])
       => /\ \A v \in Users : Balance(user_data', v) = Balance(user_data, v)
          /\ UNCHANGED <<vps_data, admin_data, disk, runtime, tasks, clock, allocated, cpu_monitor_active, cpu_thread>>]_vars

\* an owner without credits tried to buy: the account exists with balance 0,
\* and nothing else has happened
C3_RejectedPurchase ==
  /\ AllIdle
  /\ user_data["u1"] = Some([credits |-> 0])
  /\ vps_data["u1"] = None
  /\ \A n \in Names : ~Exists(n)
  /\ disk.user = None
  /\ clock = 0

\* C4: a purchase of plan P with processor C that goes through takes
\* price(P, C) from the balance and appends exactly one record with the plan's
\* ram and cpu, the plan's storage unless an override was given, status
\* running and nobody to share with; Starter/Intel costs 42 and gives 4GB, 1
\* core, 20GB.
C4_SuccessfulPurchase ==
  [][/\ \A t \in Tasks, u \in Users, b \in BuyArgs :
          (buy_with_credits(t, u, b.plan, b.processor, b.storage) /\ tasks'[t] # Idle) =>
            LET P == Capitalize(b.plan)
                C == processor_key(Capitalize(b.processor))
            IN /\ Balance(user_data', u) = Balance(user_data, u) - PRICES[P][C]
               /\ tasks'[t].plan = P /\ tasks'[t].processor = C
               /\ tasks'[t].cost = PRICES[P][C]
               /\ b.storage = None => tasks'[t].storage_gb = PLANS[P].storage
               /\ (P = "Starter" /\ C = "Intel" /\ Balance(user_data, u) = 100)
                    => Balance(user_data', u) = 58
     /\ \A t \in Tasks :
          (At(t, "buywc", "grow") /\ tasks'[t] # Idle /\ tasks'[t].pc = "notify") =>
            LET u == tasks[t].user
                P == tasks[t].plan
                old == Records(vps_data, u)
                new == Records(vps_data', u)
                r == new[Len(new)]
            IN /\ new = Append(old, r)
               /\ r.plan = P /\ r.processor = tasks[t].processor
               /\ r.ram = PLANS[P].ram /\ r.cpu = PLANS[P].cpu
               /\ r.storage = FmtGB(tasks[t].storage_gb)
               /\ r.status = "running" /\ r.shared_with = <<>>
               /\ P = "Starter" => r.ram = FmtGB(4) /\ r.cpu = Str(1)
               /\ (P = "Starter" /\ tasks[t].storage_gb = PLANS[P].storage)
                    => r.storage = FmtGB(20)
               /\ user_data' = user_data
     /\ \A t \in Tasks :
          (At(t, "buywc", "notify") /\ tasks'[t] = Idle /\ user_data' = user_data) =>
            /\ vps_data' = vps_data
            /\ tasks[t].recs = 1 /\ tasks[t].spent = tasks[t].cost]_vars

\* the owner had 100 credits and bought Starter/Intel
C4_BoughtStarterIntel ==
  /\ AllIdle
  /\ Balance(user_data, "u1") = 58
  /\ Len(Records(vps_data, "u1")) = 1
  /\ LET r == Records(vps_data, "u1")[1] IN
       /\ r.plan = "Starter" /\ r.processor = "Intel"
       /\ r.ram = FmtGB(4) /\ r.cpu = Str(1) /\ r.storage = FmtGB(20)
       /\ r.status = "running" /\ r.shared_with = <<>>

\* C5: the credits of every account are a non-negative integer.
C5_CreditsNonNegative ==
  \A u \in Users : HasKey(user_data, u) => Get(user_data, u).credits \in Nat

\* all credits were revoked while a purchase of the same user was waiting for
\* its container
C5_RevokedWhileProvisioning ==
  \E t \in Tasks :
    /\ tasks[t].op = "buywc" /\ tasks[t].pc \in {"launch", "quota", "grow"}
    /\ Balance(user_data, tasks[t].user) = 0

\* C6: no two stored records have the same container_name.
C6_UniqueNames ==
  \A u \in Users, v \in Users :
    \A i \in 1..Len(Records(vps_data, u)), j \in 1..Len(Records(vps_data, v)) :
      (u # v \/ i # j) =>
        Records(vps_data, u)[i].container_name # Records(vps_data, v)[j].container_name

\* C7: a create or purchase never allocates a name that was given to a record
\* before.
C7_NameNeverReused ==
  [][\A t \in Tasks :
       (tasks[t] = Idle /\ tasks'[t].op \in {"create", "buywc"}) =>
         tasks'[t].container_name \notin allocated]_vars

\* C8: sharing with somebody who already has access changes nothing, and no
\* shared_with ever holds a grantee twice.
C8_ShareIdempotent ==
  [][/\ \A r \in AllRecords(vps_data') : NoDuplicates(r.shared_with)
     /\ \A u \in Users, g \in Users, k \in VpsNumbers :
          (/\ share_user(u, g, k)
           /\ k \in 1..Len(Records(vps_data, u))
           /\ g \in Elems(Records(vps_data, u)[k].shared_with))
          => UNCHANGED vars]_vars

\* a record is shared with u2, so that sharing it with u2 again is the
\* repeated call
C8_SharedOnce ==
  \E r \in AllRecords(vps_data) : r.shared_with = <<"u2">>

\* C9: revoking somebody who has no access changes nothing; revoking a grantee
\* takes exactly that grantee out of shared_with and leaves the rest alone.
C9_UnshareExact ==
  [][\A u \in Users, g \in Users, k \in VpsNumbers :
       (revoke_share(u, g, k) /\ k \in 1..Len(Records(vps_data, u))) =>
         LET old == Records(vps_data, u)[k] IN
         IF g \notin Elems(old.shared_with) THEN UNCHANGED vars
         ELSE
           /\ HasKey(vps_data', u) /\ Len(Get(vps_data', u)) = Len(Get(vps_data, u))
           /\ LET new == Get(vps_data', u)[k] IN
                /\ new.shared_with = SelectSeq(old.shared_with, LAMBDA x : x # g)
                /\ Len(new.shared_with) = Len(old.shared_with) - 1
                /\ new = [old EXCEPT !.shared_with = new.shared_with]
           /\ \A i \in 1..Len(Get(vps_data, u)) :
                i # k => Get(vps_data', u)[i] = Get(vps_data, u)[i]
           /\ \A v \in Users \ {u} : vps_data'[v] = vps_data[v]
           /\ UNCHANGED <<user_data, admin_data, runtime, tasks, clock, allocated, cpu_monitor_active, cpu_thread>>]_vars

\* a record with two grantees, of which one can be revoked
C9_TwoGrantees ==
  \E r \in AllRecords(vps_data) : Len(r.shared_with) = 2

\* C10: no record's shared_with holds the id of the record's owner.
C10_OwnerNeverGrantee ==
  \A u \in Users : \A i \in 1..Len(Records(vps_data, u)) :
    u \notin Elems(Records(vps_data, u)[i].shared_with)

\* C11: the step of a delete that removes a record takes exactly the entry at
\* position vps_number out of the owner's list; the other entries keep their
\* content and order, and no other owner's list and no balance changes.
C11_DeleteRemovesOneEntry ==
  [][\A t \in Tasks :
       (/\ At(t, "delete-vps", "delete")
        /\ tasks'[t] # tasks[t]
        /\ vps_data' # vps_data) =>
         LET u == tasks[t].user
             i == tasks[t].vps_number
             old == Records(vps_data, u)
             new == Records(vps_data', u)
         IN /\ i \in 1..Len(old)
            /\ Len(new) = Len(old) - 1
            /\ \A j \in 1..Len(new) : new[j] = IF j < i THEN old[j] ELSE old[j + 1]
            /\ \A v \in Users \ {u} : vps_data'[v] = vps_data[v]
            /\ user_data' = user_data]_vars

\* of two records the first was deleted: the former second one is the only
\* entry, under its stored name
C11_SecondBecomesFirst ==
  /\ AllIdle
  /\ Len(Records(vps_data, "u1")) = 1
  /\ Records(vps_data, "u1")[1].container_name = Name("u1", 2)
  /\ ~Exists(Name("u1", 1))

\* C12: when the monitor's stop-all call has succeeded, then at the end of that
\* iteration every record that was running when the call returned is stopped;
\* and the pass changes nothing but the status of running records, whatever
\* creates and deletes run meanwhile.
C12_GuardStopsEveryRunning ==
  [][/\ (cpu_thread.pc = "pass" /\ cpu_thread'.pc = "sleep") =>
          \A r \in AllRecords(vps_data') :
            r.oid \in cpu_thread.were_running => r.status = "stopped"
     /\ (cpu_thread.pc = "list" /\ cpu_thread'.idx = cpu_thread.idx + 1) =>
          \A u \in Users :
            /\ Len(Records(vps_data', u)) = Len(Records(vps_data, u))
            /\ \A i \in 1..Len(Records(vps_data, u)) :
                 LET old == Records(vps_data, u)[i]
                     new == Records(vps_data', u)[i]
                 IN \/ new = old
                    \/ old.status = "running" /\ new = [old EXCEPT !.status = "stopped"]]_vars

\* C13: a sample that cannot be read, or a stop-all call that fails, neither
\* ends the monitor's loop nor touches the flag or any record; the loop is left
\* only at its test, with the flag off; and after such a failure the monitor
\* samples again unless it has been switched off.
C13_FailureKeepsLoop ==
  /\ [][/\ (/\ cpu_thread.pc = "sample" /\ cpu_thread'.pc # "sample"
            /\ cpu_thread'.last = "sample_error") =>
              /\ cpu_thread'.pc = "sleep"
              /\ UNCHANGED <<cpu_monitor_active, vps_data, disk, runtime>>
        /\ (cpu_thread.pc = "stop_all" /\ cpu_thread'.pc \notin {"stop_all", "pass"}) =>
              /\ cpu_thread'.pc = "sleep"
              /\ cpu_thread'.last = "stop_failed"
              /\ UNCHANGED <<cpu_monitor_active, vps_data, disk, runtime>>
        /\ (cpu_thread.pc # "exited" /\ cpu_thread'.pc = "exited") =>
              cpu_thread.pc = "check" /\ ~cpu_monitor_active]_vars
  /\ [](cpu_thread.pc = "sleep" /\ cpu_thread.last \in {"sample_error", "stop_failed"}
          => <>(cpu_thread.pc = "sample" \/ ~cpu_monitor_active))

\* the monitor samples again after a stop-all call that failed
C13_SamplesAfterFailedStop ==
  cpu_thread.pc = "sample" /\ cpu_thread.last = "stop_failed" /\ cpu_monitor_active

\* C14: if the monitor is, from some time on, switched on for good, then it
\* samples again and again - also when it was switched off before.
C14_ActiveKeepsSampling ==
  <>[]cpu_monitor_active => []<>(cpu_thread.pc = "sample")

\* C15: when the host quota call of a resize fails, the handler ends with no
\* record changed and nothing written to the documents.
C15_FailedQuotaKeepsStorage ==
  [][\A t \in Tasks :
       (At(t, "resize", "storage") /\ tasks'[t] = Idle) =>
         UNCHANGED <<vps_data, disk, runtime>>]_vars

\* a resize to 4GB, 2 cores and 50GB got its memory and cpu through and failed
\* at the quota: the record still says 10GB
C15_QuotaFailedAfterCpu ==
  /\ AllIdle
  /\ Exists(Name("u1", 1))
  /\ runtime[Name("u1", 1)][1].ram_mb = 4096
  /\ runtime[Name("u1", 1)][1].cpu = 2
  /\ runtime[Name("u1", 1)][1].size_gb = 10
  /\ Len(Records(vps_data, "u1")) = 1
  /\ Records(vps_data, "u1")[1].storage = FmtGB(10)

\* C16: when a resize ends, every dimension whose runtime call succeeded is in
\* the matching record and in the document, also when a later call failed; the
\* other dimensions keep their stored value.
C16_ResizeStoresEachDimension ==
  [][\A t \in Tasks :
       (/\ tasks[t].op = "resize" /\ tasks[t].pc # "reply"
        /\ tasks'[t] # tasks[t]
        /\ (tasks'[t] = Idle \/ tasks'[t].pc = "reply")) =>
         LET arg == tasks[t].arg
             done == IF tasks'[t] = Idle THEN tasks[t].done ELSE tasks'[t].done
         IN
         \A u \in Users : \A i \in 1..Len(Records(vps_data', u)) :
              LET new == Records(vps_data', u)[i]
                  old == Records(vps_data, u)[i]
              IN new.container_name = tasks[t].container =>
                   /\ new.ram = IF "ram" \in done THEN FmtGB(arg.ram[1]) ELSE old.ram
                   /\ new.cpu = IF "cpu" \in done THEN Str(arg.cpu[1]) ELSE old.cpu
                   /\ new.storage = IF "storage" \in done THEN FmtGB(arg.storage[1]) ELSE old.storage
                   /\ done # {} =>
                        /\ disk'.vps # None
                        /\ i <= Len(Records(disk'.vps[1], u))
                        /\ Records(disk'.vps[1], u)[i] = new]_vars

\* C17: Start and Stop change nothing when pressed; when the lxc verb has
\* returned, either it succeeded and the record's status is running for start
\* and stopped for stop, nothing else in the store differs and the documents
\* are rewritten, or it failed and store and documents are as before.
C17_StatusFollowsVerb ==
  [][\A t \in Tasks :
       /\ (tasks[t] = Idle /\ tasks'[t].op \in PowerActions) =>
            UNCHANGED <<user_data, vps_data, admin_data, disk, runtime>>
       /\ (tasks[t].op \in PowerActions /\ tasks'[t] = Idle) =>
            LET name == tasks[t].container_name
                status == IF tasks[t].op = "start" THEN "running" ELSE "stopped"
            IN
            \/ /\ Exists(name)
               /\ runtime' = lxc_set_state(runtime, name, status)
               /\ runtime' # runtime
               /\ \A u \in Users :
                    /\ Len(Records(vps_data', u)) = Len(Records(vps_data, u))
                    /\ \A i \in 1..Len(Records(vps_data, u)) :
                         LET old == Records(vps_data, u)[i] IN
                         Records(vps_data', u)[i] =
                           IF old.oid = tasks[t].oid THEN [old EXCEPT !.status = status] ELSE old
               /\ disk' = save_data(user_data', vps_data', admin_data')
               /\ user_data' = user_data
            \/ UNCHANGED <<user_data, vps_data, admin_data, disk, runtime>>]_vars

\* a record was stopped with the Stop button: record, container and document
\* say stopped
C17_StoppedByButton ==
  /\ AllIdle
  /\ \E r \in AllRecords(vps_data) :
       /\ r.status = "stopped"
       /\ Exists(r.container_name)
       /\ runtime[r.container_name][1].state = "stopped"
  /\ Flushed

\* C18: a reinstall that goes through removes the container, launches one of
\* the same name with the memory and cpu of the stored record, gives it the
\* stored storage as quota, and then sets the record's status to running and
\* its created_at to a new time; no other field, no other record and no
\* balance changes on the way.
C18_ReinstallKeepsRecord ==
  [][\A t \in Tasks :
       (tasks[t].op = "reinstall" /\ (tasks'[t] = Idle \/ tasks'[t].pc # tasks[t].pc)) =>
         LET name == tasks[t].container_name
             stored == {r \in AllRecords(vps_data) : r.oid = tasks[t].oid}
         IN
         /\ user_data' = user_data
         /\ (tasks[t].pc = "confirm" /\ tasks'[t] # Idle) =>
              runtime' = lxc_delete(runtime, name) /\ vps_data' = vps_data
         /\ (tasks[t].pc = "launch" /\ tasks'[t] # Idle) =>
              /\ vps_data' = vps_data
              /\ \A r \in stored :
                   /\ r.container_name = name
                   /\ runtime' = lxc_launch(runtime, name, ParseGB(r.ram) * 1024, ParseInt(r.cpu))
         /\ (tasks[t].pc = "quota" /\ tasks'[t] # Idle) =>
              /\ vps_data' = vps_data
              /\ \A r \in stored : runtime' = lxc_override(runtime, name, ParseGB(r.storage))
         /\ tasks[t].pc = "grow" =>
              /\ runtime' = runtime
              /\ \A u \in Users :
                   /\ Len(Records(vps_data', u)) = Len(Records(vps_data, u))
                   /\ \A i \in 1..Len(Records(vps_data, u)) :
                        LET old == Records(vps_data, u)[i]
                            new == Records(vps_data', u)[i]
                        IN IF old.oid = tasks[t].oid
                           THEN /\ new = [old EXCEPT !.status = "running", !.created_at = clock']
                                /\ new.created_at > old.created_at
                           ELSE new = old]_vars

\* the first record was reinstalled: it is stored with a later created_at, and
\* its container is there again with the stored sizes
C18_Reinstalled ==
  /\ AllIdle
  /\ Len(Records(vps_data, "u1")) = 1
  /\ LET r == Records(vps_data, "u1")[1] IN
       /\ r.oid = 1 /\ r.created_at = 2 /\ r.status = "running"
       /\ Exists(r.container_name)
       /\ runtime[r.container_name][1].ram_mb = ParseGB(r.ram) * 1024
       /\ runtime[r.container_name][1].size_gb = ParseGB(r.storage)

\* C19: pressing Reinstall only opens the confirmation and changes nothing; a
\* Cancel changes nothing; and a reinstall removes a container only in the
\* step that follows Confirm, and then the one of its record.
C19_ReinstallNeedsConfirm ==
  [][\A t \in Tasks :
       /\ (tasks[t] = Idle /\ tasks'[t].op = "reinstall") =>
            /\ tasks'[t].pc = "confirm"
            /\ UNCHANGED <<user_data, vps_data, admin_data, disk, runtime>>
       /\ (At(t, "reinstall", "confirm") /\ tasks'[t] = Idle) =>
            UNCHANGED <<user_data, vps_data, admin_data, disk, runtime>>
       /\ (/\ tasks[t].op = "reinstall"
           /\ (tasks'[t] = Idle \/ tasks'[t].pc # tasks[t].pc)) =>
            \A n \in Names :
              (Exists(n) /\ runtime'[n] = None) =>
                 /\ tasks[t].pc = "confirm"
                 /\ tasks'[t] # Idle
                 /\ n = tasks[t].container_name]_vars

\* the confirmation of a reinstall is open, and the container is untouched
C19_AwaitingConfirm ==
  \E t \in Tasks :
    /\ At(t, "reinstall", "confirm")
    /\ Exists(tasks[t].container_name)
    /\ \E r \in AllRecords(vps_data) : r.oid = tasks[t].oid
    /\ Flushed

\* C20: a create appends its record only when launch and host quota have
\* succeeded; when one of them fails, no record is appended and no record and
\* no balance changes.
C20_CreateAppendsAfterProvisioning ==
  [][\A t \in Tasks :
       (tasks[t] # Idle /\ tasks[t].op = "create" /\ tasks'[t] # tasks[t]) =>
         LET name == tasks[t].container_name
             u == tasks[t].user
         IN
         /\ (\E o \in Users : Records(vps_data', o) # Records(vps_data, o)) =>
              /\ tasks[t].pc = "grow"
              /\ Len(Records(vps_data', u)) = Len(Records(vps_data, u)) + 1
              /\ Records(vps_data', u) =
                   Append(Records(vps_data, u), Records(vps_data', u)[Len(Records(vps_data', u))])
         /\ (tasks'[t] # Idle /\ tasks'[t].pc = "grow") =>
              /\ tasks[t].pc = "quota"
              /\ runtime'[name] # None
              /\ runtime'[name][1].size_gb = tasks[t].storage
         /\ (tasks'[t] # Idle /\ tasks'[t].pc = "quota") =>
              /\ tasks[t].pc = "launch"
              /\ runtime[name] = None
              /\ runtime'[name] # None
              /\ runtime'[name][1].ram_mb = tasks[t].ram * 1024
         /\ (tasks[t].pc \in {"launch", "quota"} /\ tasks'[t] = Idle) =>
              /\ \A o \in Users : Records(vps_data', o) = Records(vps_data, o)
              /\ user_data' = user_data]_vars

\* a create failed at the host quota: its container is there without a size,
\* and no record was appended
C20_QuotaFailedNoRecord ==
  /\ AllIdle
  /\ Exists(Name("u1", 1))
  /\ runtime[Name("u1", 1)][1].size_gb = 0
  /\ Records(vps_data, "u1") = <<>>
  /\ allocated = {}

\* C21: a create whose ram, cpu or storage is not positive is rejected before
\* any effect: no owner entry is made, no table and no document changes, no
\* name is allocated, no call to the runtime is started and no handler is left
\* in flight.
C21_InvalidSpecsNoEffect ==
  [][\A t \in Tasks, a \in Actors, u \in Users, arg \in CreateArgs :
       (/\ create_vps(t, a, u, arg)
        /\ (arg.ram <= 0 \/ arg.cpu <= 0 \/ arg.storage <= 0))
       => UNCHANGED <<user_data, vps_data, admin_data, disk, runtime, tasks, clock, allocated>>]_vars

\* the owner has one record; creates without memory asked for a second one
\* and left no owner entry, no name and no container behind
C21_OnlyValidCreateProvisioned ==
  /\ AllIdle
  /\ Len(Records(vps_data, "u1")) = 1
  /\ allocated = {Name("u1", 1)}
  /\ \A n \in Names : Exists(n) <=> n = Name("u1", 1)
  /\ runtime[Name("u1", 1)][1].ram_mb > 0
  /\ vps_data["u2"] = None
  /\ Flushed

\* C22: whenever no handler is in flight, the three documents hold what the
\* three tables hold in memory (a document that was never written counts as
\* the default it would be loaded as).
C22_IdleMeansFlushed == AllIdle => Persisted

\* C23: in every reachable state the stored admin roster does not contain the
\* main admin, and the main admin passes the admin check.
C23_RosterExcludesMain ==
  /\ MAIN_ADMIN_ID \notin Elems(admin_data)
  /\ is_admin(MAIN_ADMIN_ID)

\* C24: a step of an admin-only command that changes a table, a document or
\* the monitor's flag, or that starts a call to the runtime, is triggered by the
\* main admin or by a member of the roster; this holds for create, for the
\* credit grant and revoke, for the monitor's switch and for stop-vps-all with
\* its "Stop All VPS" button; the roster changes only for the main admin.
C24_EffectsOnlyByAdmins ==
  [][/\ \A t \in Tasks, a \in Actors, u \in Users, arg \in CreateArgs :
          (create_vps(t, a, u, arg) /\ tasks'[t] # tasks[t]) => is_admin(a)
     /\ \A a \in Actors, u \in Users, n \in GrantAmounts :
          (admin_credits(a, u, n) /\ user_data' # user_data) => is_admin(a)
     /\ \A a \in Actors, u \in Users, x \in RevokeTokens :
          (admin_remove_credits(a, u, x) /\ user_data' # user_data) => is_admin(a)
     /\ \A a \in Actors, action \in ControlActions :
          (cpu_monitor_control(a, action) /\ cpu_monitor_active' # cpu_monitor_active)
             => is_admin(a)
     /\ admin_data' # admin_data =>
          \E user \in RosterTargets :
             admin_add(MAIN_ADMIN_ID, user) \/ admin_remove(MAIN_ADMIN_ID, user)
     /\ \A t \in Tasks :
          (At(t, "stop-vps-all", "view") /\ tasks'[t] # Idle /\ tasks'[t].pc = "stop")
             => is_admin(tasks'[t].by)]_vars

\* C25: whenever no handler is in flight and the monitor is between two
\* passes, the status of every record is the state its container was left in
\* by the last runtime call that returned successfully: running after launch
\* and start, stopped after stop and after the monitor's stop of everything.
C25_StatusIsLastTransition ==
  Quiet => \A r \in AllRecords(vps_data) : ~Diverged(r)

\* C26: nothing keeps the monitor's pass and a Start apart.  The pass sets a
\* running record to stopped without looking at the container, also when a
\* Start has brought the container up since the monitor stopped everything;
\* and once a record's status differs from the state of its container, it
\* stays different under every step that is not a Start or Stop of that record
\* or the monitor's own stop of everything.
C26_DivergencePersists ==
  [][/\ (cpu_thread.pc = "list" /\ cpu_thread'.idx = cpu_thread.idx + 1) =>
          /\ runtime' = runtime
          /\ \A i \in 1..Len(Records(vps_data, cpu_thread.user)) :
               (i = cpu_thread.idx /\ ~cpu_thread.detached
                  /\ Records(vps_data, cpu_thread.user)[i].status = "running")
               => Records(vps_data', cpu_thread.user)[i].status = "stopped"
     /\ \A r \in AllRecords(vps_data) :
          (/\ Diverged(r)
           /\ cpu_thread.pc \notin {"stop_all", "list"}
           /\ \A t \in Tasks :
                (tasks[t].op \in PowerActions /\ tasks[t].oid = r.oid) => tasks'[t] = tasks[t])
          => \E q \in AllRecords(vps_data') :
                /\ q.oid = r.oid
                /\ q.status = r.status
                /\ runtime'[q.container_name] = runtime[r.container_name]]_vars

\* the monitor stopped everything, a Start brought the container up again, and
\* the pass then marked the record stopped: both have finished, the document
\* says stopped, and the container runs
C26_StoppedRecordRunningContainer ==
  /\ Quiet
  /\ cpu_thread.last = "stopped_all"
  /\ Flushed
  /\ \E r \in AllRecords(vps_data) :
       /\ r.oid \in cpu_thread.were_running
       /\ r.status = "stopped"
       /\ Exists(r.container_name)
       /\ runtime[r.container_name][1].state = "running"

\* C27: a create or a purchase takes the name vps-<owner>-<n> when it is
\* called, with n one more than the number of records the owner has at that
\* moment; a call for the same owner that begins while another one has not yet
\* appended its record, the owner's list being as long as when that one was
\* called, takes the same name.
C27_NameFromLengthAtCall ==
  [][\A t \in Tasks :
       (tasks[t] = Idle /\ tasks'[t] # Idle) =>
         LET u == tasks'[t].user IN
         /\ tasks'[t].container_name = Name(u, Len(Records(vps_data, u)) + 1)
         /\ \A o \in Tasks \ {t} :
              (/\ tasks[o] # Idle
               /\ tasks[o].user = u
               /\ tasks[o].pc \in {"send", "launch", "quota", "grow"}
               /\ tasks[o].container_name = Name(u, next_count(Records(vps_data, u))))
              => tasks'[t].container_name = tasks[o].container_name]_vars

\* a create and a purchase for the same owner are in flight, neither has
\* appended its record, and both hold the name vps-u1-1
C27_TwoCallsOneName ==
  /\ tasks["t1"].op = "create"
  /\ tasks["t2"].op = "buywc"
  /\ tasks["t1"].pc = "quota"
  /\ tasks["t2"].pc = "launch"
  /\ tasks["t1"].container_name = Name("u1", 1)
  /\ tasks["t2"].container_name = Name("u1", 1)
  /\ Records(vps_data, "u1") = <<>>

\* C28: a delete that names an owner without records or a number outside the
\* owner's list is rejected without any effect and without a call to the
\* runtime; a delete in flight changes a table or a document only in a step
\* in which lxc delete --force has removed its container, or in the save that
\* follows the removal of the owner's last record; when the force-delete
\* fails, the record stays and nothing changes.
C28_DeleteOnlyAfterRuntimeDelete ==
  [][/\ \A t \in Tasks, a \in Actors, u \in Users, k \in VpsNumbers :
          (/\ delete_vps(t, a, u, k)
           /\ (~HasKey(vps_data, u) \/ k < 1 \/ k > Len(Get(vps_data, u))))
          => UNCHANGED <<user_data, vps_data, admin_data, disk, runtime, tasks, clock, allocated>>
     /\ \A t \in Tasks :
          (/\ tasks[t].op = "delete-vps"
           /\ (tasks'[t] = Idle \/ tasks'[t].pc # tasks[t].pc)) =>
            LET name == tasks[t].container_name IN
            /\ UNCHANGED <<user_data, admin_data>>
            /\ tasks[t].pc = "delete" =>
                 /\ runtime' \in {runtime, lxc_delete(runtime, name)}
                 /\ (vps_data' # vps_data \/ disk' # disk) =>
                      /\ Exists(name)
                      /\ runtime' = lxc_delete(runtime, name)
                      /\ \E u \in Users :
                           /\ Len(Records(vps_data', u)) = Len(Records(vps_data, u)) - 1
                           /\ \A v \in Users \ {u} : vps_data'[v] = vps_data[v]
                 /\ runtime' = runtime => UNCHANGED <<vps_data, disk>>
            /\ tasks[t].pc = "role" => UNCHANGED <<vps_data, runtime>>]_vars

\* a delete with a valid number is waiting for lxc delete --force: the record
\* is still in the list and in the document, and the container is there
C28_RecordKeptWhileDeleting ==
  \E t \in Tasks :
    /\ At(t, "delete-vps", "delete")
    /\ Exists(tasks[t].container_name)
    /\ tasks[t].vps_number \in 1..Len(Records(vps_data, tasks[t].user))
    /\ Records(vps_data, tasks[t].user)[tasks[t].vps_number].container_name
         = tasks[t].container_name
    /\ Flushed

C30_FixedPriceKnownPlans ==
  [][\A t \in Tasks, u \in Users, b \in BuyArgs :
       buy_with_credits(t, u, b.plan, b.processor, b.storage) =>
         /\ (b.plan = "gold" \/ b.processor = "arm") =>
              UNCHANGED <<user_data, vps_data, admin_data, disk, runtime, tasks, clock, allocated>>
         /\ (tasks'[t] # tasks[t] /\ b.plan = "starter" /\ b.processor = "Intel") =>
              /\ tasks'[t].cost = 42
              /\ Balance(user_data', u) = Balance(user_data, u) - 42
         /\ (tasks'[t] # tasks[t] /\ b.plan = "starter" /\ b.processor = "amd") =>
              /\ tasks'[t].cost = 83
              /\ Balance(user_data', u) = Balance(user_data, u) - 83]_vars

\* an owner holds the 100 credits that were granted: purchases of "gold" and
\* on "arm" took nothing, and left no account entry, name, container or record
C30_NothingBought ==
  /\ AllIdle
  /\ user_data["u1"] = Some([credits |-> 100])
  /\ vps_data["u1"] = None
  /\ \A n \in Names : ~Exists(n)
  /\ allocated = {}
  /\ clock = 0
  /\ Flushed

\* C31: processor resolution in a purchase is lenient: with a known plan and
\* enough credits, a purchase whose processor token starts with "a" (in any
\* case) is accepted and priced as AMD, and a purchase with any other token is
\* accepted and priced as Intel
C31_LenientProcessor ==
  \A b \in BuyArgs :
    (/\ Free("t1")
     /\ CanStamp
     /\ b.plan = "starter"
     /\ Balance(user_data, "u1") >= PRICES.Starter.AMD) =>
      LET key == IF UpperStartsWithA(Capitalize(b.processor)) THEN "AMD" ELSE "Intel" IN
      ENABLED (/\ buy_with_credits("t1", "u1", b.plan, b.processor, b.storage)
               /\ tasks'["t1"].op = "buywc"
               /\ tasks'["t1"].processor = key
               /\ tasks'["t1"].cost = PRICES.Starter[key])

C37_AllocatedNameIsFree ==
  [][\A t \in Tasks :
       (/\ AllIdle
        /\ tasks'[t] # Idle
        /\ tasks'[t].op \in {"create", "buywc"}) =>
         ~Exists(tasks'[t].container_name)]_vars

\* C38: whenever no command is in flight, every stored record names a
\* container that exists in the runtime
C38_RecordsHaveContainers ==
  AllIdle => \A r \in AllRecords(vps_data) : Exists(r.container_name)

\* C34: when Start or Stop is pressed in a management view by a user who is
\* neither the owner of the record acted on nor an admin, that user is in the
\* record's shared_with at that moment; and a view opened with manage-shared
\* for VPS number k acts on the record that was number k when it was opened
C34_SharedSessionChecksAccess ==
  [][\A t \in Tasks :
       (tasks[t].op = "manage" /\ tasks'[t].op \in PowerActions) =>
         LET owner == tasks[t].owner_id
             by == tasks'[t].by
             r == CHOOSE x \in Elems(Records(vps_data, owner)) : x.oid = tasks'[t].oid
         IN
         /\ (by # owner /\ ~is_admin(by)) => by \in Elems(r.shared_with)
         /\ tasks[t].is_shared => tasks'[t].oid = tasks[t].selected]_vars

\* C35: Start, Stop or Reinstall pressed in an owner's or an admin's view acts
\* on the record that was selected in the view, whatever was deleted or created
\* since; and a Start or Stop that returns changes the status of no record
\* other than the one whose container it named
C35_ActsOnSelectedRecord ==
  [][\A t \in Tasks :
       /\ (tasks[t].op = "manage" /\ ~tasks[t].is_shared /\ tasks'[t].op \in ViewActions) =>
            tasks'[t].oid = tasks[t].selected
       /\ (tasks[t].op \in PowerActions /\ tasks'[t] = Idle) =>
            \A u \in Users : \A i \in 1..Len(Records(vps_data, u)) :
              (/\ i <= Len(Records(vps_data', u))
               /\ Records(vps_data', u)[i].oid = Records(vps_data, u)[i].oid
               /\ Records(vps_data', u)[i].status # Records(vps_data, u)[i].status) =>
                Records(vps_data, u)[i].container_name = tasks[t].container_name]_vars

\* C36: the confirmation of a reinstall is opened only from the owner's view
\* of their own records, pressed by the owner; Reinstall requested in a
\* shared-management session or in an admin's view of a user's records changes
\* nothing; so only the owner gets to the Confirm that deletes and recreates
C36_ReinstallOnlyByOwner ==
  [][\A t \in Tasks :
       /\ (tasks'[t] # tasks[t] /\ tasks'[t].op = "reinstall" /\ tasks'[t].pc = "confirm") =>
            /\ tasks[t].op = "manage"
            /\ ~tasks[t].is_shared /\ ~tasks[t].is_admin
            /\ tasks'[t].by = tasks[t].owner_id
            /\ tasks[t].user_id = tasks[t].owner_id
            /\ tasks'[t].vps \in Elems(Records(vps_data, tasks[t].owner_id))
       /\ \A presser \in Actors :
            (/\ tasks[t].op = "manage"
             /\ tasks[t].is_shared \/ tasks[t].is_admin
             /\ action_callback(t, presser, "reinstall")) => UNCHANGED vars]_vars

\* an owner pressed Reinstall in the view of their own record, which is
\* shared with another user, and is asked to confirm
C36_OwnerAwaitingConfirm ==
  \E t \in Tasks :
    /\ At(t, "reinstall", "confirm")
    /\ tasks[t].by = "u1"
    /\ tasks[t].user = "u1"
    /\ "u2" \in Elems(tasks[t].vps.shared_with)
    /\ tasks[t].vps \in Elems(Records(vps_data, "u1"))

====
